---- MODULE Spec2Model ----
(***************************************************************************)
(* Model of the Argus bridge (clean_build): the monitor client             *)
(* (ArgusClient), the context aggregator (ClaudeArgusIntegration) and the  *)
(* values that cross between them.                                         *)
(*                                                                         *)
(* Python values are tagged records, so that a dict, a list, None, a       *)
(* number and a string stay different values and the operations that are   *)
(* only defined on some of them (len, slicing, .get, subscripting) raise   *)
(* on the others, as they do in Python.  A string is a sequence of         *)
(* tokens; the text of an exception, str(e), is the one-token string       *)
(* naming the exception.                                                   *)
(***************************************************************************)
EXTENDS Integers, Sequences, FiniteSets, TLC

VARIABLES pc, call, context, result, requests, replies, deviations,
          monitor, inputs, project_context, language, last

\* the monitor's current reply to each request; the arguments of the call;
\* ArgusCodeSuggestions.project_context; the language analyze_code_block
\* settled on; the record of the previous analyze_code_block call
engineVars == <<monitor, inputs, project_context, language, last>>

vars == <<pc, call, context, result, requests, replies, deviations,
          monitor, inputs, project_context, language, last>>

----------------------------------------------------------------------------
(* Bounds of the exploration *)

\* length of the longest item list a monitor body carries
MaxItems == 11
\* number of sub-query replies of one get_project_context call that may
\* differ from the monitor's nominal reply
MaxDeviations == 2

----------------------------------------------------------------------------
(* Python values *)

PyNone == [t |-> "none"]
PyInt(n) == [t |-> "int", n |-> n]
PyBool(b) == [t |-> "bool", b |-> b]
PyStr(s) == [t |-> "str", s |-> s]
PyList(xs) == [t |-> "list", xs |-> xs]
PyDict(d) == [t |-> "dict", d |-> d]

\* an exception propagating out of an expression
Raise(exc) == [t |-> "raise", exc |-> exc]
IsRaise(v) == v.t = "raise"

\* a response body that is not valid JSON
NotJson == [t |-> "invalid"]

EmptyDict == PyDict([k \in {} |-> PyNone])
EmptyList == PyList(<<>>)

Min(a, b) == IF a < b THEN a ELSE b

\* str(e)
StrOfExc(exc) == PyStr(<<exc>>)

\* d.get(key, default): only a dict has .get
PyGet(d, key, default) ==
  IF IsRaise(d) THEN d
  ELSE IF d.t # "dict" THEN Raise("AttributeError")
  ELSE IF key \in DOMAIN d.d THEN d.d[key] ELSE default

\* d[key]
PyItem(d, key) ==
  IF IsRaise(d) THEN d
  ELSE IF d.t # "dict" THEN Raise("TypeError")
  ELSE IF key \in DOMAIN d.d THEN d.d[key] ELSE Raise("KeyError")

\* len(v)
PyLen(v) ==
  IF IsRaise(v) THEN v
  ELSE IF v.t = "list" THEN PyInt(Len(v.xs))
  ELSE IF v.t = "str" THEN PyInt(Len(v.s))
  ELSE IF v.t = "dict" THEN PyInt(Cardinality(DOMAIN v.d))
  ELSE Raise("TypeError")

\* v[:k]
PySlice(v, k) ==
  IF IsRaise(v) THEN v
  ELSE IF v.t = "list" THEN PyList(SubSeq(v.xs, 1, Min(k, Len(v.xs))))
  ELSE IF v.t = "str" THEN PyStr(SubSeq(v.s, 1, Min(k, Len(v.s))))
  ELSE IF v.t = "dict" THEN Raise("KeyError")  \* TypeError before Python 3.12
  ELSE Raise("TypeError")

\* the keys of a dict as a sequence
RECURSIVE KeySeq(_)
KeySeq(ks) ==
  IF ks = {} THEN <<>>
  ELSE LET k == CHOOSE x \in ks : TRUE IN <<k>> \o KeySeq(ks \ {k})

\* for x in v: whether v can be iterated, and the values visited
Iterable(v) == ~IsRaise(v) /\ v.t \in {"list", "str", "dict"}
Elements(v) ==
  IF v.t = "list" THEN v.xs
  ELSE IF v.t = "str" THEN [i \in 1..Len(v.s) |-> PyStr(<<v.s[i]>>)]
  ELSE LET ks == KeySeq(DOMAIN v.d) IN [i \in 1..Len(ks) |-> PyStr(<<ks[i]>>)]
IterError(v) == IF IsRaise(v) THEN v ELSE Raise("TypeError")

----------------------------------------------------------------------------
(* HTTP: a reply of the monitor to one request.  exc is the exception the  *)
(* transport raises ("" when a response arrived), status the status code   *)
(* and body the decoded JSON body, or NotJson.                             *)

TransportFailure(exc) == [exc |-> exc, status |-> 0, body |-> NotJson]
Http(status, body) == [exc |-> "", status |-> status, body |-> body]

\* response.raise_for_status(): HTTPError for a 4xx or 5xx status
raise_for_status(resp) == 400 <= resp.status /\ resp.status < 600

\* session.get / session.post, raise_for_status(), response.json()
FetchJson(resp) ==
  IF resp.exc # "" THEN Raise(resp.exc)
  ELSE IF raise_for_status(resp) THEN Raise("HTTPError")
  ELSE IF resp.body = NotJson THEN Raise("JSONDecodeError")
  ELSE resp.body

Request(method, path, data) == [method |-> method, path |-> path, data |-> data]

----------------------------------------------------------------------------
(* ArgusClient *)

\* except Exception as e: return {"error": str(e)}
ErrorDict(exc) == PyDict([error |-> StrOfExc(exc)])
\* except Exception as e: return [{"error": str(e)}]
ErrorList(exc) == PyList(<<ErrorDict(exc)>>)

\* variant: the exception is not caught
ExceptDict_Reraise(v) == v
ExceptDict(v) == IF IsRaise(v) THEN ErrorDict(v.exc) ELSE v
ExceptList(v) == IF IsRaise(v) THEN ErrorList(v.exc) ELSE v

\* the first exception raised while the elements of a sequence are
\* evaluated in order, or the list of their values
Collect(vals) ==
  IF \E i \in DOMAIN vals : IsRaise(vals[i])
  THEN vals[CHOOSE i \in DOMAIN vals :
              IsRaise(vals[i]) /\ \A j \in 1..(i-1) : ~IsRaise(vals[j])]
  ELSE PyList(vals)

\* variant: any 2xx status counts as available
is_available_2xx(resp) == resp.exc = "" /\ resp.status \in 200..299
is_available(resp) == resp.exc = "" /\ resp.status = 200

get_project_health(resp) ==
  LET data == FetchJson(resp)
      fields == << PyGet(data, "score", PyInt(0)),
                   PyGet(data, "error_count", PyInt(0)),
                   PyGet(data, "warning_count", PyInt(0)),
                   PyGet(data, "technical_debt", PyStr(<<"unknown">>)),
                   PyGet(data, "last_health_check", PyNone) >>
      got == Collect(fields)
  IN ExceptDict(
       IF IsRaise(got) THEN got
       ELSE PyDict([health_score |-> fields[1],
                    error_count |-> fields[2],
                    warning_count |-> fields[3],
                    technical_debt |-> fields[4],
                    last_check |-> fields[5],
                    total_files |-> PyInt(0),
                    total_size |-> PyInt(0)]))

FrameworkName(f) == PyItem(f, "name")

\* [f["name"] for f in frameworks]
FrameworkNames(frameworks) ==
  IF ~Iterable(frameworks) THEN IterError(frameworks)
  ELSE LET it == Elements(frameworks)
       IN Collect([i \in DOMAIN it |-> FrameworkName(it[i])])

LanguageEntry(lang) ==
  LET fields == << PyItem(PyItem(lang, "language"), "name"),
                   PyItem(lang, "file_count"),
                   PyItem(lang, "line_count"),
                   FrameworkNames(PyGet(lang, "frameworks", EmptyList)),
                   PyGet(lang, "has_tests", PyBool(FALSE)),
                   PyGet(lang, "has_linting", PyBool(FALSE)),
                   PyGet(lang, "package_manager", PyStr(<<"unknown">>)) >>
      got == Collect(fields)
  IN IF IsRaise(got) THEN got
     ELSE PyDict([name |-> fields[1],
                  file_count |-> fields[2],
                  line_count |-> fields[3],
                  frameworks |-> fields[4],
                  has_tests |-> fields[5],
                  has_linting |-> fields[6],
                  package_manager |-> fields[7]])

get_detected_languages(resp) ==
  LET langs == PyGet(FetchJson(resp), "languages", EmptyList)
  IN ExceptList(
       IF ~Iterable(langs) THEN IterError(langs)
       ELSE LET it == Elements(langs)
            IN Collect([i \in DOMAIN it |-> LanguageEntry(it[i])]))

get_active_errors(resp) ==
  LET data == FetchJson(resp)
  IN ExceptList(IF IsRaise(data) THEN data
                ELSE IF data.t = "list" THEN data
                ELSE PyGet(data, "errors", EmptyList))

\* str.lower(), over the characters the model's paths use
CharLower(c) ==
  CASE c = "P" -> "p"
    [] c = "Y" -> "y"
    [] OTHER -> c

\* the last index of character c in s, 0 when absent
RFind(s, c) ==
  IF \E i \in DOMAIN s : s[i] = c
  THEN CHOOSE i \in DOMAIN s : s[i] = c /\ \A j \in (i+1)..Len(s) : s[j] # c
  ELSE 0

\* os.path.splitext(path)[-1].lower()
ExtensionOf(path) ==
  LET sep == RFind(path, "/")
      dot == RFind(path, ".")
  IN IF dot > sep /\ \E j \in (sep+1)..(dot-1) : path[j] # "."
     THEN [i \in 1..(Len(path) - dot + 1) |-> CharLower(path[dot + i - 1])]
     ELSE <<>>

\* ext of one entry of the files list, or the exception it raises
FileExt(file_info) ==
  LET path == PyGet(file_info, "path", PyStr(<<>>))
  IN IF IsRaise(path) THEN path
     ELSE IF path.t # "str" THEN Raise("TypeError")
     ELSE PyStr(ExtensionOf(path.s))

RECURSIVE CountExts(_, _)
CountExts(exts, acc) ==
  IF exts = <<>> THEN acc
  ELSE LET e == Head(exts).s
       IN CountExts(Tail(exts),
                    IF e = <<>> THEN acc
                    ELSE IF e \in DOMAIN acc
                         THEN [acc EXCEPT ![e] = PyInt(@.n + 1)]
                         ELSE acc @@ (e :> PyInt(1)))

_analyze_file_types(files) ==
  LET exts == IF ~Iterable(files) THEN IterError(files)
              ELSE LET it == Elements(files)
                   IN Collect([i \in DOMAIN it |-> FileExt(it[i])])
  IN IF IsRaise(exts) THEN exts
     ELSE PyDict(CountExts(exts.xs, [k \in {} |-> PyInt(0)]))

get_project_structure(resp) ==
  LET data == FetchJson(resp)
      files == PyGet(data, "files", EmptyList)
      fields == << PyGet(data, "root_path", PyStr(<<>>)),
                   PyLen(files),
                   _analyze_file_types(files),
                   PyLen(PyGet(data, "directories", EmptyList)),
                   PyGet(data, "project_type", PyStr(<<"unknown">>)),
                   PyGet(data, "main_files", EmptyList),
                   PyGet(data, "config_files", EmptyList) >>
      got == Collect(fields)
  IN ExceptDict(
       IF IsRaise(got) THEN got
       ELSE PyDict([root_path |-> fields[1],
                    total_files |-> fields[2],
                    file_types |-> fields[3],
                    directories |-> fields[4],
                    project_type |-> fields[5],
                    main_files |-> fields[6],
                    config_files |-> fields[7]]))

get_recent_changes(resp) ==
  LET data == FetchJson(resp)
  IN ExceptList(IF IsRaise(data) THEN data
                ELSE IF data.t = "list" THEN data
                ELSE PyGet(data, "changes", EmptyList))

get_git_status(resp) == ExceptDict(FetchJson(resp))

get_dependencies(resp) ==
  ExceptList(PyGet(FetchJson(resp), "dependencies", EmptyList))

get_todos(resp) ==
  ExceptList(PyGet(FetchJson(resp), "todos", EmptyList))

get_running_processes(resp) ==
  ExceptList(PyGet(FetchJson(resp), "processes", EmptyList))

search_project(resp) ==
  ExceptList(PyGet(FetchJson(resp), "results", EmptyList))

get_project_topology(resp) == ExceptDict(FetchJson(resp))

create_investigation_snapshot(resp) == ExceptDict(FetchJson(resp))

get_investigation_state(resp) == ExceptDict(FetchJson(resp))

add_investigation_question(resp) == ExceptDict(FetchJson(resp))

add_investigation_finding(resp) == ExceptDict(FetchJson(resp))

----------------------------------------------------------------------------
(* The operations of ArgusClient: request sent and value returned *)

ReadOps == {"get_project_health", "get_detected_languages", "get_active_errors",
            "get_project_structure", "get_recent_changes", "get_git_status",
            "get_dependencies", "get_todos", "get_running_processes",
            "search_project", "get_project_topology", "get_investigation_state"}
WriteOps == {"create_investigation_snapshot", "add_investigation_question",
             "add_investigation_finding"}
ClientOps == ReadOps \cup WriteOps

ListOps == {"get_detected_languages", "get_active_errors", "get_recent_changes",
            "get_dependencies", "get_todos", "get_running_processes",
            "search_project"}
MapOps == ClientOps \ ListOps

Path(op) ==
  CASE op = "is_available" -> "/health"
    [] op = "get_project_health" -> "/health"
    [] op = "get_detected_languages" -> "/api/languages"
    [] op = "get_active_errors" -> "/errors"
    [] op = "get_project_structure" -> "/structure"
    [] op = "get_recent_changes" -> "/changes"
    [] op = "get_git_status" -> "/git"
    [] op = "get_dependencies" -> "/dependencies"
    [] op = "get_todos" -> "/todos"
    [] op = "get_running_processes" -> "/processes"
    [] op = "search_project" -> "/search"
    [] op = "get_project_topology" -> "/api/topology"
    [] op = "create_investigation_snapshot" -> "/api/snapshots"
    [] op = "get_investigation_state" -> "/api/investigation/state"
    [] op = "add_investigation_question" -> "/api/investigation/questions"
    [] op = "add_investigation_finding" -> "/api/investigation/findings"

Method(op) == IF op \in WriteOps THEN "POST" ELSE "GET"

\* the arguments the callers pass
Texts == {PyStr(<<"a">>), PyStr(<<>>)}
Args(op) ==
  CASE op = "search_project" -> {PyDict([q |-> x]) : x \in Texts}
    [] op = "create_investigation_snapshot" ->
         {PyDict([name |-> PyStr(<<"a">>), description |-> x]) : x \in Texts}
    [] op = "add_investigation_question" ->
         {PyDict([question |-> PyStr(<<"a">>), priority |-> x,
                  source |-> PyStr(<<"claude-code">>)])
            : x \in {PyStr(<<"medium">>), PyStr(<<"high">>)}}
    [] op = "add_investigation_finding" ->
         {PyDict([title |-> PyStr(<<"a">>), description |-> PyStr(<<"a">>),
                  impact |-> PyStr(<<"medium">>), category |-> x])
            : x \in {PyStr(<<"general">>), PyStr(<<"bug">>)}}
    [] OTHER -> {PyNone}

\* the value the operation returns for the reply to its request
OpResult(op, resp) ==
  CASE op = "get_project_health" -> get_project_health(resp)
    [] op = "get_detected_languages" -> get_detected_languages(resp)
    [] op = "get_active_errors" -> get_active_errors(resp)
    [] op = "get_project_structure" -> get_project_structure(resp)
    [] op = "get_recent_changes" -> get_recent_changes(resp)
    [] op = "get_git_status" -> get_git_status(resp)
    [] op = "get_dependencies" -> get_dependencies(resp)
    [] op = "get_todos" -> get_todos(resp)
    [] op = "get_running_processes" -> get_running_processes(resp)
    [] op = "search_project" -> search_project(resp)
    [] op = "get_project_topology" -> get_project_topology(resp)
    [] op = "create_investigation_snapshot" -> create_investigation_snapshot(resp)
    [] op = "get_investigation_state" -> get_investigation_state(resp)
    [] op = "add_investigation_question" -> add_investigation_question(resp)
    [] op = "add_investigation_finding" -> add_investigation_finding(resp)

----------------------------------------------------------------------------
(* The monitor: the replies it can give to each request *)

Item(i) == PyDict([id |-> PyInt(i)])
Items(n) == PyList([i \in 1..n |-> Item(i)])
ListLens == {0, 1, 2, MaxItems}

\* the field of the body that carries the list of a list-shaped endpoint
ListField(op) ==
  CASE op = "get_active_errors" -> "errors"
    [] op = "get_recent_changes" -> "changes"
    [] op = "get_dependencies" -> "dependencies"
    [] op = "get_todos" -> "todos"
    [] op = "get_running_processes" -> "processes"
    [] op = "search_project" -> "results"
    [] op = "get_detected_languages" -> "languages"

NamedListOps == {"get_active_errors", "get_recent_changes", "get_dependencies",
                 "get_todos", "get_running_processes"}

Named(op, v) == PyDict(ListField(op) :> v)

Chars(path) == PyStr(path)

LanguageBody(name) ==
  PyDict([language |-> PyDict([name |-> PyStr(<<name>>)]),
          file_count |-> PyInt(3),
          line_count |-> PyInt(40),
          frameworks |-> PyList(<< PyDict([name |-> PyStr(<<"flask">>)]) >>),
          has_tests |-> PyBool(TRUE)])

HealthBody(score) ==
  PyDict([score |-> PyInt(score),
          error_count |-> PyInt(0),
          warning_count |-> PyInt(1),
          technical_debt |-> PyStr(<<"low">>),
          last_health_check |-> PyStr(<<"t0">>)])

GitBody(dirty) ==
  PyDict([branch |-> PyStr(<<"main">>), is_dirty |-> PyBool(dirty)])

FileInfo(path) == PyDict([path |-> Chars(path)])

StructureBody ==
  PyDict([root_path |-> Chars(<<"/", "p">>),
          files |-> PyList(<< FileInfo(<<"a", ".", "P", "Y">>),
                              FileInfo(<<"s", "/", "b", ".", "p", "y">>),
                              FileInfo(<<".", "e", "n", "v">>),
                              FileInfo(<<"M">>) >>),
          directories |-> PyList(<< Chars(<<"s">>) >>),
          project_type |-> PyStr(<<"python">>),
          main_files |-> PyList(<< Chars(<<"a", ".", "P", "Y">>) >>)])

\* the body of the monitor's usual reply
NominalBody(op) ==
  CASE op = "get_project_health" -> HealthBody(95)
    [] op = "get_detected_languages" ->
         PyDict([languages |-> PyList(<< LanguageBody("python") >>)])
    [] op = "get_project_structure" -> StructureBody
    [] op = "get_git_status" -> GitBody(FALSE)
    [] op = "get_recent_changes" -> Items(2)
    [] op \in {"get_active_errors", "get_dependencies", "get_todos",
               "get_running_processes", "search_project"} -> Named(op, Items(2))
    [] OTHER -> PyDict([ok |-> PyBool(TRUE)])

\* bodies of the shapes the endpoints document, bare or under the named field
ListBodies(op) ==
  {Items(n) : n \in ListLens} \cup {Named(op, Items(n)) : n \in ListLens}

\* other JSON bodies a 200 reply can carry
OddBodies(op) ==
  CASE op = "get_project_health" ->
         {EmptyDict, HealthBody(40), HealthBody(0), EmptyList, PyNone}
    [] op = "get_detected_languages" ->
         {EmptyDict, PyDict([languages |-> PyNone]), EmptyList,
          PyDict([languages |-> PyList(<< LanguageBody("go"),
                    PyDict([language |-> PyDict([name |-> PyStr(<<"js">>)])]) >>)])}
    [] op = "get_project_structure" ->
         {EmptyDict, PyDict([files |-> PyNone]),
          PyDict([files |-> PyList(<< PyDict([path |-> PyInt(7)]) >>)]),
          PyDict([files |-> PyList(<< PyNone >>)])}
    [] op = "get_git_status" -> {GitBody(TRUE), EmptyDict, PyNone, EmptyList}
    [] op \in NamedListOps \cup {"search_project"} ->
         {EmptyDict, PyNone,
          Named(op, PyNone), Named(op, PyInt(7)),
          Named(op, PyStr(<<"a", "b">>)), Named(op, EmptyDict)}
    [] OTHER -> {PyNone, EmptyDict}

Bodies(op) ==
  {NominalBody(op)} \cup OddBodies(op)
    \cup (IF op \in NamedListOps \cup {"search_project"} THEN ListBodies(op) ELSE {})

\* replies in which the request itself failed: no connection, a status
\* that is not 2xx, or a body that is not JSON
FailedReplies(op) ==
  {TransportFailure("ConnectionError"),
   Http(500, NotJson),
   Http(404, PyDict([detail |-> PyStr(<<"not found">>)])),
   Http(300, NominalBody(op)),
   Http(200, NotJson)}

IsFailure(resp) ==
  resp.exc # "" \/ resp.status \notin 200..299 \/ resp.body = NotJson

NominalReply(op) == Http(200, NominalBody(op))

Replies(op) ==
  FailedReplies(op) \cup {Http(200, b) : b \in Bodies(op)}
    \cup (IF op \in WriteOps THEN {Http(201, NominalBody(op))} ELSE {})

\* replies to the liveness probe
ProbeReplies ==
  {TransportFailure("ConnectionError"), TransportFailure("Timeout"),
   Http(200, HealthBody(95)), Http(200, NotJson), Http(204, NotJson),
   Http(300, NotJson), Http(404, NotJson), Http(500, NotJson)}

----------------------------------------------------------------------------
(* ClaudeArgusIntegration.get_project_context *)

ErrorsCap == 10
ChangesCap == 5

\* the keys of the context in the order the dict literal evaluates them,
\* each with the client operation that feeds it
SubQueries ==
  << [key |-> "health", op |-> "get_project_health"],
     [key |-> "languages", op |-> "get_detected_languages"],
     [key |-> "structure", op |-> "get_project_structure"],
     [key |-> "git_status", op |-> "get_git_status"],
     [key |-> "active_errors", op |-> "get_active_errors"],
     [key |-> "recent_changes", op |-> "get_recent_changes"],
     [key |-> "dependencies", op |-> "get_dependencies"],
     [key |-> "todos", op |-> "get_todos"],
     [key |-> "running_processes", op |-> "get_running_processes"] >>

\* variant: the error list is stored without its cap
FieldValue_Uncapped(key, v) ==
  CASE key = "recent_changes" -> PySlice(v, ChangesCap)
    [] key \in {"dependencies", "todos", "running_processes"} -> PyLen(v)
    [] OTHER -> v

\* what get_project_context stores under a key for the value v that the
\* key's client operation returned
FieldValue(key, v) ==
  CASE key = "active_errors" -> PySlice(v, ErrorsCap)
    [] key = "recent_changes" -> PySlice(v, ChangesCap)
    [] key \in {"dependencies", "todos", "running_processes"} -> PyLen(v)
    [] OTHER -> v

NotAvailable ==
  PyDict([error |-> PyStr(<<"Argus is not available. Please start Argus first.">>)])

NoResult == [t |-> "pending"]

\* the monitor answering every request with its usual reply
AllOps == ClientOps \cup {"is_available"}
NominalMonitor ==
  [op \in AllOps |->
     IF op = "is_available" THEN Http(200, HealthBody(95)) ELSE NominalReply(op)]

NoArgs == [op |-> ""]
NoCall == [op |-> ""]
Now == PyStr(<<"now">>)

Init ==
  /\ pc = "idle"
  /\ call = ""
  /\ context = [k \in {} |-> PyNone]
  /\ result = NoResult
  /\ requests = <<>>
  /\ replies = <<>>
  /\ deviations = 0
  /\ monitor = NominalMonitor
  /\ inputs = NoArgs
  /\ project_context = PyNone
  /\ language = ""
  /\ last = NoCall

\* variant: an unavailable monitor does not end the call
GetProjectContextProbe_NoShortCircuit ==
  /\ pc = "idle"
  /\ call' = "get_project_context"
  /\ \E resp \in ProbeReplies :
       /\ requests' = Append(requests, Request("GET", Path("is_available"), PyNone))
       /\ replies' = Append(replies, resp)
       /\ pc' = "subquery"
       /\ context' = [timestamp |-> Now]
       /\ result' = result
  /\ UNCHANGED <<deviations, engineVars>>

\* lines 242-243: the availability probe and the early return
GetProjectContextProbe ==
  /\ pc = "idle"
  /\ call' = "get_project_context"
  /\ \E resp \in ProbeReplies :
       /\ requests' = Append(requests, Request("GET", Path("is_available"), PyNone))
       /\ replies' = Append(replies, resp)
       /\ IF is_available(resp)
          THEN /\ pc' = "subquery"
               /\ context' = [timestamp |-> Now]
               /\ result' = result
          ELSE /\ pc' = "done"
               /\ context' = context
               /\ result' = NotAvailable
  /\ UNCHANGED <<deviations, engineVars>>

\* lines 245-258: the next entry of the dict literal; the return after the
\* last one; an exception raised outside the client ends the call
GetProjectContextSubQuery ==
  /\ pc = "subquery"
  /\ LET q == SubQueries[Len(requests)]
     IN \E resp \in Replies(q.op) :
          /\ resp # NominalReply(q.op) => deviations < MaxDeviations
          /\ deviations' = IF resp = NominalReply(q.op) THEN deviations
                           ELSE deviations + 1
          /\ requests' = Append(requests, Request("GET", Path(q.op), PyNone))
          /\ replies' = Append(replies, resp)
          /\ LET v == FieldValue(q.key, OpResult(q.op, resp))
             IN IF IsRaise(v)
                THEN /\ pc' = "done"
                     /\ context' = context
                     /\ result' = v
                ELSE /\ context' = context @@ (q.key :> v)
                     /\ IF Len(requests) = Len(SubQueries)
                        THEN pc' = "done" /\ result' = PyDict(context')
                        ELSE pc' = "subquery" /\ result' = result
  /\ UNCHANGED <<call, engineVars>>

\* one call of one ArgusClient operation
ClientOperation ==
  /\ pc = "idle"
  /\ \E op \in ClientOps : \E resp \in Replies(op) : \E args \in Args(op) :
       /\ call' = op
       /\ requests' = Append(requests, Request(Method(op), Path(op), args))
       /\ replies' = Append(replies, resp)
       /\ result' = OpResult(op, resp)
  /\ pc' = "done"
  /\ UNCHANGED <<context, deviations, engineVars>>

\* one call of ArgusClient.is_available
IsAvailableCall ==
  /\ pc = "idle"
  /\ \E resp \in ProbeReplies :
       /\ requests' = Append(requests, Request("GET", Path("is_available"), PyNone))
       /\ replies' = Append(replies, resp)
       /\ result' = PyBool(is_available(resp))
  /\ call' = "is_available"
  /\ pc' = "done"
  /\ UNCHANGED <<context, deviations, engineVars>>

\* the caller takes the result; the next call starts afresh
Return ==
  /\ pc = "done"
  /\ pc' = "idle"
  /\ call' = ""
  /\ context' = [k \in {} |-> PyNone]
  /\ result' = NoResult
  /\ requests' = <<>>
  /\ replies' = <<>>
  /\ deviations' = 0
  /\ UNCHANGED engineVars

Next ==
  \/ GetProjectContextProbe
  \/ GetProjectContextSubQuery
  \/ ClientOperation
  \/ IsAvailableCall
  \/ Return

Spec == Init /\ [][Next]_vars

----------------------------------------------------------------------------
(* Vocabulary of the properties *)

ContextCall == call = "get_project_context"
ContextKeys == {"timestamp"} \cup {SubQueries[i].key : i \in DOMAIN SubQueries}

\* the call returned a context, rather than the error marker or an exception
ReturnedContext ==
  /\ ContextCall /\ pc = "done"
  /\ result.t = "dict" /\ DOMAIN result.d = ContextKeys

\* sub-query i of the current call has been answered; its reply
Answered(i) == ContextCall /\ Len(replies) >= i + 1
ReplyOf(i) == replies[i + 1]

\* the probe of the current get_project_context call succeeded
ProbeOk == replies[1].exc = "" /\ replies[1].status = 200

\* the request failed in transport or came back with a status that is not 2xx
TransportOrStatusFailure(resp) == resp.exc # "" \/ resp.status \notin 200..299

\* the client's request raised: no connection, a 4xx or 5xx status, or a
\* body that is not JSON
RequestFailed(resp) ==
  resp.exc # "" \/ resp.status \in 400..599 \/ resp.body = NotJson

\* a 200 reply whose body has a shape the endpoint documents
ShapedBodies(op) ==
  {NominalBody(op)}
    \cup (IF op \in NamedListOps THEN ListBodies(op) ELSE {})
    \cup (IF op = "get_project_health" THEN {HealthBody(40), HealthBody(0)} ELSE {})
    \cup (IF op = "get_git_status" THEN {GitBody(TRUE)} ELSE {})
Succeeded(op, resp) ==
  resp.exc = "" /\ resp.status = 200 /\ resp.body \in ShapedBodies(op)

\* the requests of the nine sub-queries, in order, after the probe
FanOut ==
  [i \in 1..(Len(SubQueries) + 1) |->
     IF i = 1 THEN Request("GET", "/health", PyNone)
     ELSE Request("GET", Path(SubQueries[i - 1].op), PyNone)]

\* the items of a list or the characters of a string
ItemsOf(v) == IF v.t = "list" THEN v.xs ELSE v.s

----------------------------------------------------------------------------
(* C1: when the availability probe of get_project_context fails, the call  *)
(* returns a mapping whose only key is the error marker and sends no       *)
(* sub-query: the probe is the only request of the call.                   *)
C1_UnavailableShortCircuit ==
  (ContextCall /\ ~ProbeOk) =>
     /\ pc = "done"
     /\ result.t = "dict" /\ DOMAIN result.d = {"error"}
     /\ requests = << Request("GET", "/health", PyNone) >>

C1_Witness ==
  /\ ContextCall /\ pc = "done" /\ ~ProbeOk
  /\ result = NotAvailable /\ Len(requests) = 1

(* C2: when the probe succeeds, exactly one sub-query fails in transport   *)
(* or with a non-2xx status and the others succeed, get_project_context    *)
(* returns a full context, all nine sub-queries are sent, and every other  *)
(* field has the value its own reply determines, whatever the failed one   *)
(* was answered.                                                           *)
C2_PartialFailureIsolation ==
  \A f \in DOMAIN SubQueries :
    ( /\ ContextCall /\ pc = "done" /\ ProbeOk
      /\ Answered(f) /\ TransportOrStatusFailure(ReplyOf(f))
      /\ \A g \in DOMAIN SubQueries \ {f} :
           Answered(g) => Succeeded(SubQueries[g].op, ReplyOf(g)) )
    => /\ ReturnedContext
       /\ requests = FanOut
       /\ \A g \in DOMAIN SubQueries \ {f} :
            result.d[SubQueries[g].key]
              = FieldValue(SubQueries[g].key, OpResult(SubQueries[g].op, ReplyOf(g)))

C2_Witness ==
  /\ ReturnedContext /\ requests = FanOut
  /\ TransportOrStatusFailure(ReplyOf(1))
  /\ \A g \in 2..Len(SubQueries) : Succeeded(SubQueries[g].op, ReplyOf(g))
  /\ result.d["running_processes"] = PyInt(2)

(* C3: get_project_context never raises: whatever the monitor answers,     *)
(* the finished call has returned a value.                                 *)
C3_NeverRaises ==
  (ContextCall /\ pc = "done") => ~IsRaise(result)

(* C4: in a returned context a failed dependencies, todos or processes     *)
(* sub-query leaves the count 0 in its field.                              *)
C4_FailedCountIsZero ==
  ReturnedContext =>
    \A i \in DOMAIN SubQueries :
      (SubQueries[i].key \in {"dependencies", "todos", "running_processes"}
         /\ RequestFailed(ReplyOf(i)))
      => result.d[SubQueries[i].key] = PyInt(0)

(* C5: in a returned context the value of a field whose sub-query failed   *)
(* differs from every value a successful sub-query can put in that field.  *)
C5_DegradedDistinguishable ==
  ReturnedContext =>
    \A i \in DOMAIN SubQueries :
      RequestFailed(ReplyOf(i)) =>
        result.d[SubQueries[i].key] \notin
          {FieldValue(SubQueries[i].key, OpResult(SubQueries[i].op, Http(200, b)))
             : b \in ShapedBodies(SubQueries[i].op)}

(* C6: a client operation whose request failed (no connection, a status    *)
(* that is not 2xx, a body that is not JSON) returns the degraded value:   *)
(* a one-element list holding an error marker for the list-shaped          *)
(* operations, the error marker for the map-shaped ones.                   *)
IsErrorMarker(v) == v.t = "dict" /\ DOMAIN v.d = {"error"}
C6_DegradedOnFailure ==
  (pc = "done" /\ call \in ClientOps /\ IsFailure(replies[1])) =>
     IF call \in ListOps
     THEN result.t = "list" /\ Len(result.xs) = 1 /\ IsErrorMarker(result.xs[1])
     ELSE IsErrorMarker(result)

(* C7: is_available returns a boolean, True exactly when its GET came back *)
(* with status 200, and sends that one GET to the health path.             *)
C7_IsAvailable ==
  (pc = "done" /\ call = "is_available") =>
     /\ result.t = "bool"
     /\ result.b <=> (replies[1].exc = "" /\ replies[1].status = 200)
     /\ requests = << Request("GET", "/health", PyNone) >>

C7_Witness ==
  /\ pc = "done" /\ call = "is_available"
  /\ replies[1] = Http(204, NotJson) /\ result = PyBool(FALSE)

(* C8: no retries: a finished client operation has sent exactly one        *)
(* request, and a finished get_project_context call on an available        *)
(* monitor has sent the probe and each of the nine sub-queries once.       *)
C8_NoRetries ==
  pc = "done" =>
     /\ call \in ClientOps \cup {"is_available"} => Len(requests) = 1
     /\ (ContextCall /\ ProbeOk) => requests = FanOut

(* C9: for errors, changes, todos, processes and dependencies a 200 reply  *)
(* with a bare list and one with the same list under the named field both  *)
(* make the operation return that list.                                    *)
C9_BothShapesAccepted ==
  \A n \in ListLens :
    (pc = "done" /\ call \in NamedListOps
       /\ replies[1] \in {Http(200, Items(n)), Http(200, Named(call, Items(n)))})
    => result = Items(n)

(* C10: in a returned context active_errors is the first min(10, n) items  *)
(* of the list the errors operation returned, and recent_changes the       *)
(* first min(5, m) items of the list the changes operation returned.       *)
IsPrefix(part, full, cap) ==
  /\ part.t = full.t
  /\ Len(ItemsOf(part)) = Min(cap, Len(ItemsOf(full)))
  /\ Len(ItemsOf(part)) <= cap
  /\ \A i \in 1..Len(ItemsOf(part)) : ItemsOf(part)[i] = ItemsOf(full)[i]
C10_Truncation ==
  ReturnedContext =>
     /\ IsPrefix(result.d["active_errors"],
                 OpResult("get_active_errors", ReplyOf(5)), 10)
     /\ IsPrefix(result.d["recent_changes"],
                 OpResult("get_recent_changes", ReplyOf(6)), 5)

C10_Witness ==
  /\ ReturnedContext
  /\ ReplyOf(5) = Http(200, Named("get_active_errors", Items(MaxItems)))
  /\ Len(result.d["active_errors"].xs) = 10
  /\ result.d["active_errors"].xs[10] = Item(10)
  /\ ReplyOf(6) = Http(200, Items(MaxItems))
  /\ Len(result.d["recent_changes"].xs) = 5

----------------------------------------------------------------------------
(* Text: a Python str whose characters matter is the sequence of its       *)
(* characters.                                                             *)

UpperLetters == <<"A", "B", "C", "D", "E", "F", "G", "H", "I", "J", "K", "L",
    "M", "N", "O", "P", "Q", "R", "S", "T", "U", "V", "W", "X", "Y", "Z">>
LowerLetters == <<"a", "b", "c", "d", "e", "f", "g", "h", "i", "j", "k", "l",
    "m", "n", "o", "p", "q", "r", "s", "t", "u", "v", "w", "x", "y", "z">>

IsUpper(c) == \E i \in DOMAIN UpperLetters : UpperLetters[i] = c
IsLetter(c) == IsUpper(c) \/ \E i \in DOMAIN LowerLetters : LowerLetters[i] = c
IsSpace(c) == c \in {" ", "\t", "\n", "\r"}

LowerChar(c) ==
  IF IsUpper(c)
  THEN LowerLetters[CHOOSE i \in DOMAIN UpperLetters : UpperLetters[i] = c]
  ELSE c

\* s.lower()
StrLower(s) == [i \in 1..Len(s) |-> LowerChar(s[i])]

\* pat occurs in s at offset i (0-based)
OccursAt(s, pat, i) ==
  /\ i + Len(pat) <= Len(s)
  /\ \A j \in 1..Len(pat) : s[i + j] = pat[j]

\* pat in s
Contains(s, pat) == \E i \in 0..(Len(s) - Len(pat)) : OccursAt(s, pat, i)

\* s.startswith(pat), s.endswith(pat)
StartsWith(s, pat) == OccursAt(s, pat, 0)
EndsWith(s, pat) == Len(pat) <= Len(s) /\ OccursAt(s, pat, Len(s) - Len(pat))

\* s.count(c) for a one-character c
CountChar(s, c) == Cardinality({i \in DOMAIN s : s[i] = c})

\* s.split(c) for a one-character c
RECURSIVE Split(_, _)
Split(s, c) ==
  IF \E i \in DOMAIN s : s[i] = c
  THEN LET i == CHOOSE k \in DOMAIN s : s[k] = c /\ \A j \in 1..(k-1) : s[j] # c
       IN <<SubSeq(s, 1, i - 1)>> \o Split(SubSeq(s, i + 1, Len(s)), c)
  ELSE <<s>>

\* s.strip()
Strip(s) ==
  IF \A i \in DOMAIN s : IsSpace(s[i]) THEN <<>>
  ELSE LET a == CHOOSE k \in DOMAIN s :
                  ~IsSpace(s[k]) /\ \A j \in 1..(k-1) : IsSpace(s[j])
           b == CHOOSE k \in DOMAIN s :
                  ~IsSpace(s[k]) /\ \A j \in (k+1)..Len(s) : IsSpace(s[j])
       IN SubSeq(s, a, b)

\* s.split(): the maximal runs of characters that are not whitespace
RECURSIVE Words(_)
Words(s) ==
  IF \A i \in DOMAIN s : IsSpace(s[i]) THEN <<>>
  ELSE LET a == CHOOSE k \in DOMAIN s :
                  ~IsSpace(s[k]) /\ \A j \in 1..(k-1) : IsSpace(s[j])
           b == CHOOSE k \in a..Len(s) :
                  /\ \A j \in a..k : ~IsSpace(s[j])
                  /\ (k = Len(s) \/ IsSpace(s[k + 1]))
       IN <<SubSeq(s, a, b)>> \o Words(SubSeq(s, b + 1, Len(s)))

\* the concatenation of a sequence of sequences
RECURSIVE Flatten(_)
Flatten(ss) == IF ss = <<>> THEN <<>> ELSE Head(ss) \o Flatten(Tail(ss))

Max(a, b) == IF a > b THEN a ELSE b

----------------------------------------------------------------------------
(* ArgusCodeSuggestions: the rule functions.  A finding is the message the *)
(* code appends, kept as the rule that produced it and the values the      *)
(* message interpolates (line 0: the message has no line number).          *)

Finding(rule, line, n, pat) == [rule |-> rule, line |-> line, n |-> n,
    pat |-> pat]

Opt(cond, finding) == IF cond THEN <<finding>> ELSE <<>>

LineLimit == 120

\* Path(file_path).suffix.lower()
Suffix(file_path) ==
  LET sep == RFind(file_path, "/")
      name == SubSeq(file_path, sep + 1, Len(file_path))
      dot == RFind(name, ".")
  IN IF 1 < dot /\ dot < Len(name)
     THEN StrLower(SubSeq(name, dot, Len(name)))
     ELSE <<>>

language_map ==
  << <<<<".", "p", "y">>, "python">>, <<<<".", "j", "s">>, "javascript">>,
      <<<<".", "t", "s">>, "typescript">>,
     <<<<".", "g", "o">>, "go">>, <<<<".", "j", "a", "v", "a">>, "java">>,
         <<<<".", "c">>, "c">>, <<<<".", "c", "p", "p">>, "cpp">>,
     <<<<".", "c", "s">>, "csharp">>, <<<<".", "p", "h", "p">>, "php">>,
         <<<<".", "r", "b">>, "ruby">>,
     <<<<".", "r", "s">>, "rust">>, <<<<".", "h", "t", "m", "l">>, "html">>,
         <<<<".", "c", "s", "s">>, "css">>,
     <<<<".", "s", "q", "l">>, "sql">>, <<<<".", "s", "h">>, "bash">> >>

_detect_language_from_file(file_path) ==
  LET ext == Suffix(file_path)
  IN IF \E k \in DOMAIN language_map : language_map[k][1] = ext
     THEN language_map[CHOOSE k \in DOMAIN language_map : language_map[k][1] = ext][2]
     ELSE "unknown"

_find_python_quality_issues(code) ==
  Opt(Contains(code, <<"e", "x", "c", "e", "p", "t", ":">>),
      Finding("bare-except", 0, 0, <<>>))
  \o Opt(Contains(code, <<"i", "m", "p", "o", "r", "t", " ", "*">>),
      Finding("wildcard-import", 0, 0, <<>>))

_find_go_quality_issues(code) ==
  Opt(Contains(code, <<"p", "a", "n", "i", "c", "(">>), Finding("panic", 0, 0,
      <<>>))
  \o Opt(Contains(code, <<"f", "m", "t", ".", "P", "r", "i", "n",
      "t">>) /\ ~Contains(code, <<"m", "a", "i", "n", "(">>),
         Finding("structured-logging", 0, 0, <<>>))

_find_js_quality_issues(code) ==
  Opt(Contains(code, <<"=", "=">>) /\ ~Contains(code, <<"=", "=", "=">>),
      Finding("strict-equality", 0, 0, <<>>))
  \o Opt(Contains(code, <<"v", "a", "r", " ">>), Finding("var", 0, 0, <<>>))

debug_patterns ==
  <<<<"c", "o", "n", "s", "o", "l", "e", ".", "l", "o", "g">>, <<"p", "r", "i",
      "n", "t", "(">>, <<"p", "r", "i", "n", "t", "l", "n", "(">>, <<"f", "m",
      "t", ".", "P", "r", "i", "n", "t">>, <<"S", "y", "s", "t", "e", "m", ".",
      "o", "u", "t", ".", "p", "r", "i", "n", "t">>>>

IsCommentLine(line) ==
  StartsWith(Strip(line), <<"/", "/">>) \/ StartsWith(Strip(line), <<"#">>)

\* variant: the lines are counted from 0
QualityOfLine_ZeroBased(i, line) ==
  Opt(Len(line) > LineLimit, Finding("line-too-long", i - 1, Len(line), <<>>))
  \o Opt(Contains(line, <<"T", "O", "D", "O">>) \/ Contains(line, <<"F", "I",
      "X", "M", "E">>),
         Finding("todo", i - 1, 0, <<>>))
  \o Flatten([k \in DOMAIN debug_patterns |->
                Opt(Contains(line, debug_patterns[k]) /\ ~IsCommentLine(line),
                    Finding("debug", i - 1, 0, debug_patterns[k]))])

\* what one pass of the loop over the lines appends for line i
QualityOfLine(i, line) ==
  Opt(Len(line) > LineLimit, Finding("line-too-long", i, Len(line), <<>>))
  \o Opt(Contains(line, <<"T", "O", "D", "O">>) \/ Contains(line, <<"F", "I",
      "X", "M", "E">>),
         Finding("todo", i, 0, <<>>))
  \o Flatten([k \in DOMAIN debug_patterns |->
                Opt(Contains(line, debug_patterns[k]) /\ ~IsCommentLine(line),
                    Finding("debug", i, 0, debug_patterns[k]))])

_find_quality_issues(code, lang) ==
  LET lines == Split(code, "\n")
  IN Flatten([i \in DOMAIN lines |-> QualityOfLine(i, lines[i])])
     \o (IF lang = "python" THEN _find_python_quality_issues(code)
         ELSE IF lang = "go" THEN _find_go_quality_issues(code)
         ELSE IF lang \in {"javascript", "typescript"}
              THEN _find_js_quality_issues(code)
         ELSE <<>>)

security_patterns ==
  <<<<"p", "a", "s", "s", "w", "o", "r", "d">>, <<"a", "p", "i", "_", "k", "e",
      "y">>, <<"s", "e", "c", "r", "e", "t">>, <<"t", "o", "k", "e", "n">>,
      <<"e", "v", "a", "l", "(">>, <<"e", "x", "e", "c", "(">>,
    <<"s", "h", "e", "l", "l", "=", "T", "r", "u", "e">>, <<"i", "n", "n", "e",
        "r", "H", "T", "M", "L">>, <<"d", "o", "c", "u", "m", "e", "n", "t",
        ".", "w", "r", "i", "t", "e">>>>

_find_security_issues(code, lang) ==
  LET code_lower == StrLower(code)
  IN Flatten([k \in DOMAIN security_patterns |->
                Opt(Contains(code_lower, security_patterns[k]),
                    Finding("security", 0, 0, security_patterns[k]))])

\* variant: the line itself is among the lines inspected
LinesBelow_Inclusive(i, n) == Max(1, i)..Min(n, i + 5)

\* the lines the nested-loop check of line i (1-based) looks at:
\* lines[j] for j in range(max(0, i), min(len(lines), i + 5)), 0-based
LinesBelow(i, n) == (Max(0, i) + 1)..Min(n, i + 5)

_find_performance_issues(code, lang) ==
  LET lines == Split(code, "\n")
  IN Flatten([i \in DOMAIN lines |->
                Opt(/\ Contains(lines[i], <<"f", "o", "r", " ">>)
                    /\ \E j \in LinesBelow(i, Len(lines)) :
                          Contains(lines[j], <<"f", "o", "r", " ">>),
                    Finding("nested-loops", i, 0, <<>>))])
     \o (IF lang = "python"
         THEN Opt(Contains(code, <<"+", "=">>) /\ Contains(code, <<"f", "o",
             "r", " ">>),
                  Finding("list-comprehension", 0, 0, <<>>))
         ELSE IF lang = "go"
         THEN Opt(Contains(code, <<"a", "p", "p", "e", "n", "d",
             "(">>) /\ Contains(code, <<"f", "o", "r", " ">>),
                  Finding("pre-allocate", 0, 0, <<>>))
         ELSE <<>>)

_find_python_style_issues(code) ==
  LET lines == Split(code, "\n")
  IN Flatten([i \in DOMAIN lines |->
                Opt(EndsWith(lines[i], <<" ">>), Finding("trailing-whitespace",
                    i, 0, <<>>))
                \o Opt(/\ Contains(lines[i], <<"=", "=">>)
                       /\ (Contains(lines[i], <<"T", "r", "u",
                           "e">>) \/ Contains(lines[i], <<"F", "a", "l", "s",
                           "e">>)),
                       Finding("is-true", i, 0, <<>>))])

\* re.match(r'.*func\s+[A-Z][a-zA-Z]*\s*\(', line)
MatchesExportedFunc(line) ==
  \E p \in 0..(Len(line) - 4) :
    /\ OccursAt(line, <<"f", "u", "n", "c">>, p)
    /\ \E a \in (p + 6)..Len(line) :
         /\ \A j \in (p + 5)..(a - 1) : IsSpace(line[j])
         /\ IsUpper(line[a])
         /\ \E c \in (a + 1)..Len(line) :
              /\ line[c] = "("
              /\ \E b \in a..(c - 1) :
                   /\ \A j \in (a + 1)..b : IsLetter(line[j])
                   /\ \A j \in (b + 1)..(c - 1) : IsSpace(line[j])

_find_go_style_issues(code) ==
  LET lines == Split(code, "\n")
  IN Flatten([i \in DOMAIN lines |->
                Opt(/\ Contains(lines[i], <<"f", "u", "n", "c", " ">>)
                    /\ Contains(lines[i], <<"(">>) /\ Contains(lines[i],
                        <<")">>)
                    /\ ~MatchesExportedFunc(lines[i])
                    /\ ~Contains(lines[i], <<"m", "a", "i", "n", "(">>)
                    /\ ~StartsWith(Strip(lines[i]), <<"/", "/">>),
                    Finding("exported-capital", i, 0, <<>>))])

\* code.count(';') < code.count('\n') / 2
_find_js_style_issues(code) ==
  Opt(2 * CountChar(code, ";") < CountChar(code, "\n"),
      Finding("semicolons", 0, 0, <<>>))

_find_style_issues(code, lang) ==
  IF lang = "python" THEN _find_python_style_issues(code)
  ELSE IF lang = "go" THEN _find_go_style_issues(code)
  ELSE IF lang \in {"javascript",
      "typescript"} THEN _find_js_style_issues(code)
  ELSE <<>>

----------------------------------------------------------------------------
(* The helper functions, each computed against a monitor m that answers    *)
(* every request of the call the same way: m[op] is its reply to op.       *)

RECURSIVE ContextFrom(_, _, _)
ContextStep(m, k, acc, key, v) ==
  IF IsRaise(v) THEN v ELSE ContextFrom(m, k + 1, acc @@ (key :> v))

ContextFrom(m, k, acc) ==
  IF k > Len(SubQueries) THEN PyDict(acc)
  ELSE ContextStep(m, k, acc, SubQueries[k].key,
                   FieldValue(SubQueries[k].key,
                              OpResult(SubQueries[k].op,
                                  m[SubQueries[k].op])))

\* ClaudeArgusIntegration.get_project_context
get_project_context(m) ==
  IF ~is_available(m["is_available"]) THEN NotAvailable
  ELSE ContextFrom(m, 1, [timestamp |-> Now])

is_argus_available(m) == is_available(m["is_available"])

HelperErrorDict == PyDict([error |-> PyStr(<<"A", "r", "g", "u", "s", " ", "i",
    "s", " ", "n", "o", "t", " ", "a", "v", "a", "i", "l", "a", "b", "l",
    "e">>)])
HelperErrorList == PyList(<<HelperErrorDict>>)

get_current_errors(m) ==
  IF ~is_argus_available(m) THEN HelperErrorList
  ELSE get_active_errors(m["get_active_errors"])

SummaryOf(ctx) ==
  LET vs == << PyGet(PyGet(ctx, "health", EmptyDict), "health_score",
      PyInt(0)),
               PyGet(PyGet(ctx, "structure", EmptyDict), "total_files",
                   PyInt(0)),
               PyGet(PyGet(ctx, "structure", EmptyDict), "project_type",
                     PyStr(<<"unknown">>)),
               PyLen(PyGet(ctx, "languages", EmptyList)),
               PyLen(PyGet(ctx, "active_errors", EmptyList)),
               PyGet(PyGet(ctx, "git_status", EmptyDict), "branch",
                     PyStr(<<"unknown">>)),
               PyGet(PyGet(ctx, "git_status", EmptyDict), "is_dirty",
                     PyBool(FALSE)) >>
  IN IF IsRaise(ctx) THEN ctx
     ELSE IF "error" \in DOMAIN ctx.d THEN ctx
     ELSE IF IsRaise(Collect(vs)) THEN Collect(vs)
     ELSE PyDict([health_score |-> vs[1], total_files |-> vs[2],
                  project_type |-> vs[3], languages |-> vs[4],
                  active_errors |-> vs[5], git_branch |-> vs[6],
                  is_dirty |-> vs[7]])

get_project_summary(m) ==
  IF ~is_argus_available(m) THEN HelperErrorDict
  ELSE SummaryOf(get_project_context(m))

----------------------------------------------------------------------------
(* str() of the values a monitor's lists carry *)

DigitChars == <<"0", "1", "2", "3", "4", "5", "6", "7", "8", "9">>

RECURSIVE Digits(_)
Digits(n) ==
  IF n < 10 THEN <<DigitChars[n + 1]>>
  ELSE Digits(n \div 10) \o <<DigitChars[(n % 10) + 1]>>

\* the characters of a dict key
KeyChars(k) ==
  CASE k = "id" -> <<"i", "d">>
    [] k = "message" -> <<"m", "e", "s", "s", "a", "g", "e">>
    [] k = "error" -> <<"e", "r", "r", "o", "r">>
    [] k = "severity" -> <<"s", "e", "v", "e", "r", "i", "t", "y">>
    [] k = "file" -> <<"f", "i", "l", "e">>
    [] OTHER -> <<k>>

RECURSIVE Join(_, _)
Join(parts, sep) ==
  IF parts = <<>> THEN <<>>
  ELSE IF Len(parts) = 1 THEN parts[1]
  ELSE parts[1] \o sep \o Join(Tail(parts), sep)

\* repr(v); a str is quoted with ', which holds for a str without quotes
RECURSIVE Repr(_)
Repr(v) ==
  CASE v.t = "str" -> <<"'">> \o v.s \o <<"'">>
    [] v.t = "int" -> Digits(v.n)
    [] v.t = "bool" -> IF v.b THEN <<"T", "r", "u", "e">> ELSE <<"F", "a", "l",
        "s", "e">>
    [] v.t = "none" -> <<"N", "o", "n", "e">>
    [] v.t = "list" -> <<"[">> \o Join([i \in DOMAIN v.xs |-> Repr(v.xs[i])],
        <<",", " ">>) \o <<"]">>
    [] v.t = "dict" ->
         LET ks == KeySeq(DOMAIN v.d)
         IN <<"{">> \o Join([i \in DOMAIN ks |->
                          <<"'">> \o KeyChars(ks[i]) \o <<"'", ":",
                              " ">> \o Repr(v.d[ks[i]])], <<",", " ">>)
               \o <<"}">>

\* str(v)
Str(v) == IF v.t = "str" THEN v.s ELSE Repr(v)

\* bool(v)
Truthy(v) ==
  CASE v.t = "none" -> FALSE
    [] v.t = "bool" -> v.b
    [] v.t = "int" -> v.n # 0
    [] v.t = "str" -> v.s # <<>>
    [] v.t = "list" -> v.xs # <<>>
    [] v.t = "dict" -> DOMAIN v.d # {}

\* v < n and v > n for an int n: the number v stands for, where it has one
IsNumber(v) == ~IsRaise(v) /\ v.t \in {"int", "bool"}
NumberOf(v) == IF v.t = "int" THEN v.n ELSE IF v.b THEN 1 ELSE 0

----------------------------------------------------------------------------
(* ArgusCodeSuggestions: the suggestions drawn from the monitor            *)

_get_project_specific_suggestions(code, file_path, pctx) ==
  IF ~Truthy(pctx) THEN EmptyList
  ELSE LET project_type ==
             PyGet(PyGet(pctx, "structure", EmptyDict), "project_type",
                 PyStr(<<>>))
       IN IF IsRaise(project_type) THEN project_type
          ELSE PyList(Opt(/\ project_type = PyStr(<<"g", "o">>)
                          /\ EndsWith(file_path, <<".", "g", "o">>)
                          /\ Contains(StrLower(code), <<"h", "t", "t", "p">>)
                          /\ ~Contains(StrLower(code), <<"f", "i", "b", "e",
                              "r">>),
                          Finding("fiber", 0, 0, <<>>)))

\* any(word in code.lower() for word in error_str.split() if len(word) > 3)
RelatesTo(code, error) ==
  LET words == Words(StrLower(Str(error)))
  IN \E k \in DOMAIN words :
       Len(words[k]) > 3 /\ Contains(StrLower(code), words[k])

InsightErrors == 3
LowHealth == 50

\* lines 324-335, for the errors and the summary of lines 321-322
InsightsOf(code, errors, summary) ==
  LET shown == PySlice(errors, InsightErrors)
      health_score == PyGet(summary, "health_score", PyInt(0))
  IN IF IsRaise(errors) THEN errors
     ELSE IF IsRaise(summary) THEN summary
     ELSE IF IsRaise(shown) THEN shown
     ELSE IF ~IsNumber(health_score) THEN IterError(health_score)
     ELSE PyList(
            Flatten([k \in DOMAIN Elements(shown) |->
                       Opt(RelatesTo(code, Elements(shown)[k]),
                           Finding("active-error", 0, 0, <<>>))])
            \o Opt(NumberOf(health_score) < LowHealth,
                   Finding("low-health", 0, 0, <<>>)))

_get_argus_insights(code, file_path, m) ==
  IF ~is_argus_available(m) THEN EmptyList
  ELSE InsightsOf(code, get_current_errors(m), get_project_summary(m))

MaxDeduction == 80
PerIssue == 10
max_score == 100

\* variant: the deduction has no cap
ScoreOf_Uncapped(total_issues) == max_score - total_issues * PerIssue
\* lines 49-52
ScoreOf(total_issues) == max_score - Min(total_issues * PerIssue,
    MaxDeduction)

\* lines 35-36: the language the rules run under
LanguageOf_PathFirst(file_path, declared) ==
  IF file_path # <<>> THEN _detect_language_from_file(file_path) ELSE declared
LanguageOf(file_path, declared) ==
  IF declared = "" /\ file_path # <<>>
  THEN _detect_language_from_file(file_path) ELSE declared

\* lines 38-54, for the lists the six rule functions returned
Suggestions(quality, security, performance, style, project, insights) ==
  IF IsRaise(project) THEN project
  ELSE IF IsRaise(insights) THEN insights
  ELSE PyDict([quality_issues |-> PyList(quality),
               security_concerns |-> PyList(security),
               performance_hints |-> PyList(performance),
               style_improvements |-> PyList(style),
               project_specific |-> project,
               argus_insights |-> insights,
               overall_score |->
                 PyInt(ScoreOf(Len(quality) + Len(security) + Len(performance)))])

\* lines 38-54, for the language settled by lines 35-36
AnalysisUnder(code, file_path, lang, pctx, m) ==
  Suggestions(_find_quality_issues(code, lang),
              _find_security_issues(code, lang),
              _find_performance_issues(code, lang),
              _find_style_issues(code, lang),
              _get_project_specific_suggestions(code, file_path, pctx),
              _get_argus_insights(code, file_path, m))

analyze_code_block(code, file_path, declared, pctx, m) ==
  AnalysisUnder(code, file_path, LanguageOf(file_path, declared), pctx, m)

----------------------------------------------------------------------------
(* Whole-file analysis *)

\* s.count(pat) for a pat that cannot overlap itself
CountOf(s, pat) == Cardinality({i \in 0..Len(s) : OccursAt(s, pat, i)})

LargeFile == 500
ManyFuncs == 3

_get_file_level_suggestions(file_path, content, lang) ==
  LET line_count == Len(Split(content, "\n"))
  IN Opt(line_count > LargeFile, Finding("large-file", 0, line_count, <<>>))
     \o Opt(/\ lang \in {"python", "go", "java"}
            /\ Contains(content, <<"f", "u", "n", "c", " ">>)
            /\ ~Contains(content, <<"\"", "\"", "\"">>) /\ ~Contains(content,
                <<"/", "*">>)
            /\ CountOf(content, <<"f", "u", "n", "c", " ">>) > ManyFuncs,
            Finding("add-documentation", 0, 0, <<>>))

RefactorBelow == 80

\* claude_argus_helpers._get_file_suggestions
_get_file_suggestions(file_path, errors, ctx) ==
  LET ext == ExtensionOf(file_path)
      health_score == PyGet(PyGet(ctx, "health", EmptyDict), "health_score",
          PyInt(0))
  IN IF ~IsNumber(health_score) THEN IterError(health_score)
     ELSE PyList(
            Opt(errors # <<>>, Finding("fix-file-errors", 0, Len(errors),
                <<>>))
            \o Opt(ext = <<".", "g", "o">>, Finding("go-fmt", 0, 0, <<>>))
            \o Opt(ext \in {<<".", "j", "s">>, <<".", "t", "s">>},
                Finding("eslint", 0, 0, <<>>))
            \o Opt(ext = <<".", "p", "y">>, Finding("black", 0, 0, <<>>))
            \o Opt(NumberOf(health_score) < RefactorBelow,
                   Finding("refactor", 0, 0, <<>>)))

\* the helper search_project
search_project_helper(m) ==
  IF ~is_argus_available(m) THEN HelperErrorList
  ELSE search_project(m["search_project"])

SearchShown == 3

\* claude_argus_helpers.get_file_analysis
\* lines 144-156, for the values of lines 140, 143 and 147
FileAnalysisOf(file_path, search_results, errors, ctx) ==
  LET file_errors ==
        SelectSeq(Elements(errors), LAMBDA e : Contains(Str(e), file_path))
      vs == << PyLen(search_results),
               PySlice(search_results, SearchShown),
               PyGet(PyGet(ctx, "health", EmptyDict), "health_score",
                   PyInt(0)),
               _get_file_suggestions(file_path, file_errors, ctx) >>
  IN IF ~Iterable(errors) THEN IterError(errors)
     ELSE IF IsRaise(ctx) THEN ctx
     ELSE IF IsRaise(Collect(vs)) THEN Collect(vs)
     ELSE PyDict([file_path |-> PyStr(file_path),
                  found_in_search |-> PyBool(vs[1].n > 0),
                  search_results |-> vs[2],
                  related_errors |-> PyList(file_errors),
                  project_health |-> vs[3],
                  suggestions |-> vs[4]])

\* claude_argus_helpers.get_file_analysis
get_file_analysis(file_path, m) ==
  IF ~is_argus_available(m) THEN HelperErrorDict
  ELSE FileAnalysisOf(file_path, search_project_helper(m),
      get_current_errors(m),
                      get_project_context(m))

\* what the file system holds at a path
Missing == [kind |-> "missing", content |-> <<>>]
Unreadable == [kind |-> "unreadable", content |-> <<>>]
TextFile(content) == [kind |-> "text", content |-> content]

FileNotFound(file_path) ==
  PyDict([error |-> PyStr(<<"F", "i", "l", "e", " ">> \o file_path \o <<" ",
      "n", "o", "t", " ", "f", "o", "u", "n", "d">>)])
CouldNotRead(file_path) ==
  PyDict([error |-> PyStr(<<"C", "o", "u", "l", "d", " ", "n", "o", "t", " ",
      "r", "e", "a", "d", " ", "f", "i", "l", "e", ":", " ", "[", "E", "r",
      "r", "n", "o", " ", "1", "3", "]", " ", "P", "e", "r", "m", "i", "s",
      "s", "i", "o", "n", " ", "d", "e", "n", "i", "e", "d", ":", " ">>
                          \o Repr(PyStr(file_path)))])

\* variant: the analysis runs whether or not the file exists
\* lines 70-74, for the analysis of line 68
WithFileKeys(analysis, file_suggestions, file_context) ==
  IF IsRaise(analysis) THEN analysis
  ELSE IF IsRaise(file_context) THEN file_context
  ELSE PyDict(analysis.d @@ [file_suggestions |-> PyList(file_suggestions),
                             argus_file_context |-> file_context])

\* lines 67-74
AnalyzeFile(file_path, content, lang, pctx, m) ==
  WithFileKeys(analyze_code_block(content, file_path, lang, pctx, m),
               _get_file_level_suggestions(file_path, content, lang),
               IF is_argus_available(m) THEN get_file_analysis(file_path, m)
               ELSE EmptyDict)

\* variant: the analysis runs whether or not the file exists
suggest_improvements_for_file_Unguarded(file_path, file, pctx, m) ==
  AnalyzeFile(file_path, file.content, _detect_language_from_file(file_path),
              pctx, m)

suggest_improvements_for_file(file_path, file, pctx, m) ==
  IF file.kind = "missing" THEN FileNotFound(file_path)
  ELSE IF file.kind = "unreadable" THEN CouldNotRead(file_path)
  ELSE AnalyzeFile(file_path, file.content,
      _detect_language_from_file(file_path),
                   pctx, m)

----------------------------------------------------------------------------
(* The requests a call sends to a monitor m, in order *)

Req(op) == Request(Method(op), Path(op), PyNone)
Probe == <<Req("is_available")>>

RECURSIVE SubQueryLog(_, _)
SubQueryLog(m, k) ==
  IF k > Len(SubQueries) THEN <<>>
  ELSE <<Req(SubQueries[k].op)>>
       \o (IF IsRaise(FieldValue(SubQueries[k].key,
                                 OpResult(SubQueries[k].op,
                                     m[SubQueries[k].op])))
           THEN <<>> ELSE SubQueryLog(m, k + 1))

ContextLog(m) ==
  Probe \o (IF is_argus_available(m) THEN SubQueryLog(m, 1) ELSE <<>>)

CurrentErrorsLog(m) ==
  Probe \o (IF is_argus_available(m) THEN <<Req("get_active_errors")>> ELSE <<>>)

SummaryLog(m) == Probe \o (IF is_argus_available(m) THEN ContextLog(m) ELSE <<>>)

RefreshLog(m) == Probe \o (IF is_argus_available(m) THEN ContextLog(m) ELSE <<>>)

InsightsLog(m) ==
  Probe \o (IF is_argus_available(m)
            THEN CurrentErrorsLog(m) \o SummaryLog(m) ELSE <<>>)

AnalyzeLog(code, file_path, pctx, m) ==
  IF IsRaise(_get_project_specific_suggestions(code, file_path,
      pctx)) THEN <<>>
  ELSE InsightsLog(m)

\* os.path.basename(file_path)
Basename(file_path) ==
  SubSeq(file_path, RFind(file_path, "/") + 1, Len(file_path))

FileAnalysisLog(file_path, m) ==
  Probe \o
  (IF ~is_argus_available(m) THEN <<>>
   ELSE Probe
        \o <<Request("GET", Path("search_project"),
                     PyDict([q |-> PyStr(Basename(file_path))]))>>
        \o CurrentErrorsLog(m)
        \o (IF Iterable(get_current_errors(m)) THEN ContextLog(m) ELSE <<>>))

\* the requests of lines 68-72, for the analysis of line 68
AnalysisLog(file_path, analysis, m) ==
  IF IsRaise(analysis) THEN <<>>
  ELSE Probe \o (IF is_argus_available(m)
                 THEN FileAnalysisLog(file_path, m) ELSE <<>>)

FileLog(file_path, file, pctx, m) ==
  IF file.kind # "text" THEN <<>>
  ELSE AnalyzeLog(file.content, file_path, pctx, m)
       \o AnalysisLog(file_path,
                      analyze_code_block(file.content, file_path,
                        _detect_language_from_file(file_path), pctx, m), m)

----------------------------------------------------------------------------
(* The monitors and the inputs of the scoring engine *)

GoStructureBody ==
  PyDict([root_path |-> Chars(<<"/", "p">>),
          files |-> PyList(<< FileInfo(<<"m", "a", "i", "n", ".", "g",
              "o">>) >>),
          directories |-> PyList(<<>>),
          project_type |-> PyStr(<<"g", "o">>),
          main_files |-> PyList(<< Chars(<<"m", "a", "i", "n", ".", "g",
              "o">>) >>)])

TroubledErrors ==
  PyList(<< PyStr(<<"t", "i", "m", "e", "o", "u", "t", " ", "i", "n", " ", "h",
      "a", "n", "d", "l", "e", "r">>),
            PyDict([id |-> PyInt(2)]),
            PyStr(<<"n", "i", "l", " ", "m", "a", "p">>),
            PyStr(<<"p", "a", "s", "s", "w", "o", "r", "d", " ", "e", "x", "p",
                "i", "r", "e", "d">>) >>)

MonitorHealthy == NominalMonitor

MonitorTroubled ==
  [NominalMonitor EXCEPT
     !["is_available"] = Http(200, HealthBody(40)),
     !["get_project_health"] = Http(200, HealthBody(40)),
     !["get_project_structure"] = Http(200, GoStructureBody),
     !["get_git_status"] = Http(200, GitBody(TRUE)),
     !["get_active_errors"] = Http(200, Named("get_active_errors",
         TroubledErrors))]

MonitorDown == [op \in AllOps |-> TransportFailure("ConnectionError")]

\* a monitor whose error list is null
MonitorOdd ==
  [NominalMonitor EXCEPT
     !["get_active_errors"] = Http(200, Named("get_active_errors", PyNone))]

EngineMonitors == {MonitorHealthy, MonitorTroubled, MonitorDown, MonitorOdd}

LongLine == 130

Line(n) == [i \in 1..n |-> "x"]

CodeSecrets ==
  <<"p", "a", "s", "s", "w", "o", "r", "d", " ", "a", "p", "i", "_", "k", "e",
      "y", " ", "s", "e", "c", "r", "e", "t", " ", "t", "o", "k", "e", "n",
      " ", "e", "v", "a", "l", "(", " ", "e", "x", "e", "c", "(", " ", "d",
      "o", "c", "u", "m", "e", "n", "t", ".", "w", "r", "i", "t", "e", "(",
      "x", ")">>
CodeNoisy ==
  <<"/", "/", " ", "T", "O", "D", "O", " ", "p", "a", "s", "s", "w", "o", "r",
      "d", " ", "a", "p", "i", "_", "k", "e", "y", " ", "s", "e", "c", "r",
      "e", "t", " ", "t", "o", "k", "e", "n", " ", "e", "v", "a", "l", "(",
      " ", "e", "x", "e", "c", "(", " ", "d", "o", "c", "u", "m", "e", "n",
      "t", ".", "w", "r", "i", "t", "e", "(", "x", ")", "\n", "c", "o", "n",
      "s", "o", "l", "e", ".", "l", "o", "g", "(", "1", ")", ";", " ", "p",
      "r", "i", "n", "t", "(", "2", ")", ";", " ", "f", "m", "t", ".", "P",
      "r", "i", "n", "t", "(", "3", ")", ";", " ", "S", "y", "s", "t", "e",
      "m", ".", "o", "u", "t", ".", "p", "r", "i", "n", "t", "l", "n", "(",
      "4", ")", " ">>
CodePython ==
  <<"f", "r", "o", "m", " ", "o", "s", " ", "i", "m", "p", "o", "r", "t", " ", "*", "\n", "#", " ", "T", "O", "D",
      "O", " ", "t", "i", "d", "y", " ", "\n", "f", "o", "r", " ", "a", " ",
      "i", "n", " ", "x", ":", "\n", " ", " ", " ", " ", "f", "o", "r", " ",
      "b", " ", "i", "n", " ", "y", ":", "\n", " ", " ", " ", " ", " ", " ",
      " ", " ", "s", " ", "+", "=", " ", "1", "\n", "i", "f", " ", "s", " ",
      "=", "=", " ", "T", "r", "u", "e", ":", "\n", " ", " ", " ", " ", "p",
      "r", "i", "n", "t", "(", "s", ")", "\n", "#", " ", "p", "r", "i", "n",
      "t", "(", "s", ")">>
CodeGo ==
  <<"f", "u", "n", "c", " ", "h", "a", "n", "d", "l", "e", "r", "(", "w", " ",
      "h", "t", "t", "p", ".", "R", "e", "s", "p", "o", "n", "s", "e", "W",
      "r", "i", "t", "e", "r", ")", " ", "{", "\n", "\t", "f", "o", "r", " ",
      "_", ",", " ", "v", " ", ":", "=", " ", "r", "a", "n", "g", "e", " ",
      "x", "s", " ", "{", "\n", "\t", "\t", "y", "s", " ", "=", " ", "a", "p",
      "p", "e", "n", "d", "(", "y", "s", ",", " ", "v", ")", "\n", "\t", "}",
      "\n", "}", "\n", "f", "u", "n", "c", " ", "S", "e", "r", "v", "e", " ",
      "(", "p", " ", "i", "n", "t", ")", " ", "{", "}">>
CodeJs ==
  <<"v", "a", "r", " ", "a", " ", "=", " ", "1", "\n", "i", "f", " ", "(", "a",
      " ", "=", "=", " ", "2", ")", " ", "{", "\n", " ", " ", "e", "l", ".",
      "i", "n", "n", "e", "r", "H", "T", "M", "L", " ", "=", " ", "a", "\n",
      "}", "\n">>

Codes ==
  {<<"x", " ", "=", " ", "1">>, <<"x", " ", "=", " ", "'", "p", "a", "s", "s",
      "w", "o", "r", "d", "1", "2", "3", "'">>, <<"P", "A", "S", "S", "W", "O",
      "R", "D", " ", "=", " ", "T", "o", "k", "e", "n", "(", ")">>,
   <<"s", "u", "b", "p", "r", "o", "c", "e", "s", "s", ".", "r", "u", "n", "(",
       "c", "m", "d", ",", " ", "s", "h", "e", "l", "l", "=", "T", "r", "u",
       "e", ")">>, <<"e", "l", ".", "i", "n", "n", "e", "r", "H", "T", "M",
       "L", " ", "=", " ", "x">>, <<"d", " ", "=", " ", "{", "'", "i", "d",
       "'", ":", " ", "7", "}">>,
   <<"r", "e", "t", "r", "y", " ", "a", "f", "t", "e", "r", " ", "t", "i", "m",
       "e", "o", "u", "t">>, Line(LongLine), Line(LineLimit),
       Line(LineLimit + 1),
   CodeSecrets, CodeNoisy, CodePython, CodeGo, CodeJs}

FilePaths ==
  {<<>>, <<"a", ".", "p", "y">>, <<"s", "r", "c", "/", "A", ".", "P", "Y">>,
      <<"x", ".", "t", "a", "r", ".", "g", "z">>, <<".", "b", "a", "s", "h",
      "r", "c">>, <<"m", "a", "i", "n", ".", "g", "o">>, <<"a", "p", "p", ".",
      "j", "s">>,
   <<"m", ".", "t", "s">>, <<"n", "o", "e", "x", "t">>, <<"v", "1", ".", "2",
       "/", "r", "u", "n">>}

Languages == {"", "python", "Python", "go", "javascript", "typescript",
    "unknown"}

AnalyzeArgs(code, file_path, lang) ==
  [op |-> "analyze_code_block", code |-> code, file_path |-> file_path,
   language |-> lang]

\* the calls of analyze_code_block: every code alone, the multi-line codes
\* with every path, and with every declared language
\* fourteen lines: two loop tokens on line 1 and none on the five lines
\* below it; loops on lines 7 and 12, five lines apart; loops on 13 and 14
CodeLoops ==
  <<"f", "o", "r", " ", "a", " ", "i", "n", " ", "x", ":", " ", "[", "b", " ",
      "f", "o", "r", " ", "b", " ", "i", "n", " ", "y", "]", "\n", "p", "\n",
      "p", "\n", "p", "\n", "p", "\n", "p", "\n", "f", "o", "r", " ", "c", " ",
      "i", "n", " ", "z", ":", "\n", "q", "\n", "q", "\n", "q", "\n", "q",
      "\n", "f", "o", "r", " ", "d", " ", "i", "n", " ", "w", ":", "\n", "f",
      "o", "r", " ", "e", " ", "i", "n", " ", "v", ":", "\n", "f", "o", "r",
      " ", "f", " ", "i", "n", " ", "u", ":">>

\* texts analysed as javascript and typescript
JsTexts ==
  {<<"x", " ", "=", " ", "1">>, <<"a", ";", "\n", "b", "\n">>, <<"a", ";",
      "\n", "b", ";", "\n", "c">>, <<"a", "\n", "b", "\n", "c">>, <<"i", "f",
      " ", "(", "a", " ", "=", "=", " ", "b", ")", " ", "v", "a", "r", " ",
      "c", " ", "=", " ", "1">>,
   <<"i", "f", " ", "(", "a", " ", "=", "=", "=", " ", "b", " ", "|", "|", " ",
       "c", " ", "=", "=", " ", "d", ")", " ", "x", ";">>, CodeJs}

AnalyzeInputs ==
  {AnalyzeArgs(c, <<>>, "") : c \in Codes}
  \cup {AnalyzeArgs(c, p, "") : c \in {CodePython, CodeGo, CodeJs},
      p \in FilePaths}
  \cup {AnalyzeArgs(c, p, l) : c \in {CodePython, CodeJs, CodeNoisy},
                               p \in {<<>>, <<"m", "a", "i", "n", ".", "g",
                                   "o">>}, l \in Languages}
  \cup {AnalyzeArgs(CodeLoops, <<>>, l) : l \in {"", "python"}}
  \cup {AnalyzeArgs(c, <<>>, l) : c \in JsTexts,
                                 l \in {"javascript", "typescript"}}

FileArgs(file_path, file) ==
  [op |-> "suggest_improvements_for_file", file_path |-> file_path,
      file |-> file]

FileInputs ==
  {FileArgs(p, f) : p \in {<<"m", "a", "i", "n", ".", "g", "o">>, <<"a", ".",
      "p", "y">>},
                    f \in {Missing, Unreadable, TextFile(CodeGo),
                        TextFile(<<"x", " ", "=", " ", "1">>)}}

----------------------------------------------------------------------------
(* The scoring engine as a state machine.  A call is one step: it reads    *)
(* the monitor as it stands and the stored project_context.  last is the   *)
(* latest analyze_code_block call: its arguments, the project_context it   *)
(* read and what it returned.                                              *)

\* lines 26-31, as __init__ and refresh_context run it
RefreshedContext(m) ==
  IF is_argus_available(m) THEN get_project_context(m) ELSE PyNone

\* the monitors under which the constructor returns
Constructible == {m \in EngineMonitors : ~IsRaise(RefreshedContext(m))}

\* the values project_context can hold
Snapshots == {RefreshedContext(m) : m \in Constructible}

Analyze(a) ==
  /\ pc = "idle"
  /\ call' = "analyze_code_block"
  /\ inputs' = a
  /\ language' = LanguageOf(a.file_path, a.language)
  /\ result' = analyze_code_block(a.code, a.file_path, a.language,
                                  project_context, monitor)
  /\ requests' = AnalyzeLog(a.code, a.file_path, project_context, monitor)
  /\ last' = [args |-> a, snapshot |-> project_context, result |-> result']
  /\ pc' = "done"
  /\ UNCHANGED <<context, replies, deviations, monitor, project_context>>

\* one call of analyze_code_block
AnalyzeCodeBlock == \E a \in AnalyzeInputs : Analyze(a)

\* one call of suggest_improvements_for_file
SuggestImprovementsForFile ==
  \E a \in FileInputs :
    /\ pc = "idle"
    /\ call' = "suggest_improvements_for_file"
    /\ inputs' = a
    /\ result' = suggest_improvements_for_file(a.file_path, a.file,
                                               project_context, monitor)
    /\ requests' = FileLog(a.file_path, a.file, project_context, monitor)
    /\ IF a.file.kind = "text" /\ ~IsRaise(result')
       THEN /\ language' = _detect_language_from_file(a.file_path)
            /\ last' = [args |-> AnalyzeArgs(a.file.content, a.file_path,
                language'),
                        snapshot |-> project_context,
                        result |-> PyDict([k \in DOMAIN result'.d
                                              \ {"file_suggestions",
                                                  "argus_file_context"}
                                            |-> result'.d[k]])]
       ELSE UNCHANGED <<language, last>>
    /\ pc' = "done"
    /\ UNCHANGED <<context, replies, deviations, monitor, project_context>>

RulesInit ==
  /\ pc = "idle"
  /\ call = ""
  /\ context = [k \in {} |-> PyNone]
  /\ result = NoResult
  /\ requests = <<>>
  /\ replies = <<>>
  /\ deviations = 0
  /\ monitor \in EngineMonitors
  /\ inputs = NoArgs
  /\ project_context \in Snapshots
  /\ language = ""
  /\ last = NoCall

RulesNext == AnalyzeCodeBlock \/ SuggestImprovementsForFile

\* one call on an engine constructed earlier
SpecRules == RulesInit /\ [][RulesNext]_vars

\* the calls that are repeated
RepeatInputs ==
  {AnalyzeArgs(<<"r", "e", "t", "r", "y", " ", "a", "f", "t", "e", "r", " ",
      "t", "i", "m", "e", "o", "u", "t">>, <<>>, ""),
   AnalyzeArgs(<<"x", " ", "=", " ", "1">>, <<>>, "python"),
   AnalyzeArgs(CodeGo, <<"m", "a", "i", "n", ".", "g", "o">>, "")}

AnalyzeAgain == \E a \in RepeatInputs : Analyze(a)

\* the monitor goes down, comes up, or reports a different project state
MonitorChange ==
  /\ monitor' \in EngineMonitors \ {monitor}
  /\ UNCHANGED <<pc, call, context, result, requests, replies, deviations,
                 inputs, project_context, language, last>>

\* one call of refresh_context; an exception leaves project_context as it was
RefreshContext ==
  LET v == RefreshedContext(monitor)
  IN /\ pc = "idle"
     /\ call' = "refresh_context"
     /\ inputs' = NoArgs
     /\ requests' = RefreshLog(monitor)
     /\ project_context' = IF IsRaise(v) THEN project_context ELSE v
     /\ result' = IF IsRaise(v) THEN v ELSE PyNone
     /\ pc' = "done"
     /\ UNCHANGED <<context, replies, deviations, monitor, language, last>>

EngineInit ==
  /\ pc = "idle"
  /\ call = ""
  /\ context = [k \in {} |-> PyNone]
  /\ result = NoResult
  /\ requests = <<>>
  /\ replies = <<>>
  /\ deviations = 0
  /\ monitor \in Constructible
  /\ inputs = NoArgs
  /\ project_context = RefreshedContext(monitor)
  /\ language = ""
  /\ last = NoCall

EngineNext == AnalyzeAgain \/ MonitorChange \/ RefreshContext \/ Return

\* the engine across changes of the monitor
SpecEngine == EngineInit /\ [][EngineNext]_vars

----------------------------------------------------------------------------
(* Properties of the scoring engine *)

\* a call of analyze_code_block has returned its result
AnalysisReturned ==
  pc = "done" /\ call = "analyze_code_block" /\ ~IsRaise(result)

\* the findings of a category of a result r
Category(r, key) == r.d[key].xs

\* the number of quality, security and performance findings of a result r
IssueCount(r) ==
  Len(Category(r, "quality_issues")) + Len(Category(r, "security_concerns"))
    + Len(Category(r, "performance_hints"))

(* C11: a result of analyze_code_block carries overall_score                *)
(* 100 - min(80, 10 k) for the k quality, security and performance          *)
(* findings of the same result, so it lies in 0..100 and the style,         *)
(* project and insight findings have no part in it.                         *)
C11_OverallScore ==
  AnalysisReturned =>
    /\ result.d["overall_score"] = PyInt(100 - Min(80,
        10 * IssueCount(result)))
    /\ result.d["overall_score"].n \in 0..100

\* more than eight counted findings, with style findings and insights
C11_Witness ==
  /\ AnalysisReturned
  /\ IssueCount(result) > 8
  /\ result.d["overall_score"] = PyInt(20)
  /\ Category(result, "style_improvements") # <<>>
  /\ Category(result, "argus_insights") # <<>>

\* a call of analyze_code_block has ended, with a result or an exception
AnalysisDone == pc = "done" /\ call = "analyze_code_block"

\* the language the extension table gives each path of FilePaths
TableLanguage(file_path) ==
  CASE file_path \in {<<"a", ".", "p", "y">>, <<"s", "r", "c", "/", "A", ".",
      "P", "Y">>} -> "python"
    [] file_path = <<"m", "a", "i", "n", ".", "g", "o">> -> "go"
    [] file_path = <<"a", "p", "p", ".", "j", "s">> -> "javascript"
    [] file_path = <<"m", ".", "t", "s">> -> "typescript"
    [] OTHER -> "unknown"

\* the rules that run under every language
AgnosticRules == {"line-too-long", "todo", "debug", "nested-loops",
    "security"}

Rules(findings) == {findings[i].rule : i \in DOMAIN findings}

(* C16: analyze_code_block runs its rules under the declared language when *)
(* one is given, whatever the path; under the extension table's language   *)
(* for the lower-cased extension, or "unknown", when only a path is given; *)
(* and under "unknown" or no language at all every quality, security and   *)
(* performance finding comes from a language-agnostic rule and the style    *)
(* category is empty.                                                       *)
C16_LanguageDispatch ==
  AnalysisDone =>
    /\ inputs.language # "" => language = inputs.language
    /\ (inputs.language = "" /\ inputs.file_path # <<>>)
         => language = TableLanguage(inputs.file_path)
    /\ (inputs.language = "" /\ inputs.file_path = <<>>) => language = ""
    /\ AnalysisReturned =>
         /\ Category(result, "style_improvements")
              = _find_style_issues(inputs.code, language)
         /\ Category(result, "quality_issues")
              = _find_quality_issues(inputs.code, language)
         /\ language \in {"unknown", ""} =>
              /\ Category(result, "style_improvements") = <<>>
              /\ Rules(Category(result,
                  "quality_issues")) \subseteq AgnosticRules
              /\ Rules(Category(result,
                  "performance_hints")) \subseteq AgnosticRules

\* a declared language wins over the extension of the path
C16_Witness ==
  /\ AnalysisReturned
  /\ inputs.language = "python" /\ inputs.file_path = <<"m", "a", "i", "n",
      ".", "g", "o">>
  /\ "bare-except" \notin Rules(Category(result, "quality_issues"))
  /\ "trailing-whitespace" \in Rules(Category(result, "style_improvements"))

\* the nine patterns of the security table, as the matching sees them
NinePatterns ==
  <<<<"p", "a", "s", "s", "w", "o", "r", "d">>, <<"a", "p", "i", "_", "k", "e",
      "y">>, <<"s", "e", "c", "r", "e", "t">>, <<"t", "o", "k", "e", "n">>,
      <<"e", "v", "a", "l", "(">>, <<"e", "x", "e", "c", "(">>,
    <<"s", "h", "e", "l", "l", "=", "t", "r", "u", "e">>, <<"i", "n", "n", "e",
        "r", "h", "t", "m", "l">>, <<"d", "o", "c", "u", "m", "e", "n", "t",
        ".", "w", "r", "i", "t", "e">>>>

\* the security findings of a result r for the pattern pat
SecurityFindings(r, pat) ==
  {i \in DOMAIN Category(r, "security_concerns") :
     StrLower(Category(r, "security_concerns")[i].pat) = pat}

(* C17: the security category of a result holds exactly one finding for    *)
(* each of the nine patterns that occurs in the code under                 *)
(* case-insensitive matching, and none for a pattern that does not.        *)
C17_SecurityRules ==
  AnalysisReturned =>
    \A k \in DOMAIN NinePatterns :
      Cardinality(SecurityFindings(result, NinePatterns[k]))
        = IF Contains(StrLower(inputs.code), NinePatterns[k]) THEN 1 ELSE 0

\* the lines of the code of the call
InputLines == Split(inputs.code, "\n")

\* the trigger a line-numbered finding f reports holds of the line
Triggered(f, line) ==
  CASE f.rule = "line-too-long" -> Len(line) > 120 /\ f.n = Len(line)
    [] f.rule = "todo" -> Contains(line, <<"T", "O", "D",
        "O">>) \/ Contains(line, <<"F", "I", "X", "M", "E">>)
    [] f.rule = "debug" ->
         /\ Contains(line, f.pat)
         /\ ~StartsWith(Strip(line), <<"/", "/">>) /\ ~StartsWith(Strip(line),
             <<"#">>)
    [] f.rule = "nested-loops" -> Contains(line, <<"f", "o", "r", " ">>)
    [] f.rule = "trailing-whitespace" -> line # <<>> /\ line[Len(line)] = " "
    [] f.rule = "is-true" -> Contains(line, <<"=", "=">>)
    [] f.rule = "exported-capital" -> Contains(line, <<"f", "u", "n", "c",
        " ">>)
    [] OTHER -> FALSE

\* the findings of a category are in line order, none twice, each on a line
\* of the input that satisfies its trigger
LineOrdered(findings) ==
  /\ \A i \in DOMAIN findings :
       findings[i].line > 0 =>
         /\ findings[i].line \in DOMAIN InputLines
         /\ Triggered(findings[i], InputLines[findings[i].line])
  /\ \A i, j \in DOMAIN findings :
       (i < j /\ findings[i].line > 0 /\ findings[j].line > 0) =>
         /\ findings[i].line <= findings[j].line
         /\ findings[i] # findings[j]

\* the line-too-long findings of a result r for line i
LongLineFindings(r, i) ==
  {k \in DOMAIN Category(r, "quality_issues") :
     /\ Category(r, "quality_issues")[k].rule = "line-too-long"
     /\ Category(r, "quality_issues")[k].line = i}

(* C18: a finding with a line number names, counting from 1, a line of the *)
(* input (split on newline) that satisfies the rule's trigger; within a    *)
(* category these findings are in non-decreasing line order and none is    *)
(* repeated; every line longer than 120 characters has exactly one         *)
(* line-too-long finding; a single 130-character line alone gives exactly  *)
(* one quality finding, reporting its length, and score 90.                *)
C18_LineNumbers ==
  AnalysisReturned =>
    /\ LineOrdered(Category(result, "quality_issues"))
    /\ LineOrdered(Category(result, "performance_hints"))
    /\ LineOrdered(Category(result, "style_improvements"))
    /\ \A i \in DOMAIN InputLines :
         Cardinality(LongLineFindings(result, i))
           = IF Len(InputLines[i]) > 120 THEN 1 ELSE 0
    /\ inputs.code = Line(LongLine) =>
         /\ Category(result, "quality_issues")
              = <<Finding("line-too-long", 1, LongLine, <<>>)>>
         /\ result.d["overall_score"] = PyInt(90)

\* findings on lines 2, 3 and 7 of a text of several lines
C18_Witness ==
  /\ AnalysisReturned
  /\ inputs.code = CodePython /\ language = "python"
  /\ \E i, j, k \in DOMAIN Category(result, "quality_issues") :
       /\ i < j
       /\ Category(result, "quality_issues")[i] = Finding("todo", 2, 0, <<>>)
       /\ Category(result, "quality_issues")[j] = Finding("debug", 7, 0, <<"p",
           "r", "i", "n", "t", "(">>)
       /\ Category(result, "quality_issues")[k].line = 0
  /\ Finding("nested-loops", 3, 0, <<>>)
       \in {Category(result, "performance_hints")[i] :
              i \in DOMAIN Category(result, "performance_hints")}
  /\ Finding("trailing-whitespace", 2, 0, <<>>)
       \in {Category(result, "style_improvements")[i] :
              i \in DOMAIN Category(result, "style_improvements")}

\* a call of suggest_improvements_for_file on a path with no readable file
FileCallFailed ==
  /\ pc = "done" /\ call = "suggest_improvements_for_file"
  /\ inputs.file.kind \in {"missing", "unreadable"}

(* C20: suggest_improvements_for_file on a path that does not exist or     *)
(* cannot be read returns a dict whose only key is error, holding a        *)
(* message; no analysis has run and no request has gone to the monitor.    *)
C20_MissingFile ==
  FileCallFailed =>
    /\ ~IsRaise(result)
    /\ result.t = "dict" /\ DOMAIN result.d = {"error"}
    /\ result.d["error"].t = "str" /\ result.d["error"].s # <<>>
    /\ last = NoCall
    /\ requests = <<>>

\* the file is missing while the monitor is up
C20_Witness ==
  /\ FileCallFailed
  /\ inputs.file = Missing
  /\ is_argus_available(monitor)
  /\ result = FileNotFound(inputs.file_path)
  /\ requests = <<>>

(* C19: a call of analyze_code_block with the arguments of the latest      *)
(* call before it, on a project_context equal to the one that call read,   *)
(* returns what that call returned, whatever the monitor did in between.   *)
C19_Deterministic ==
  [][(/\ pc = "idle" /\ pc' = "done" /\ call' = "analyze_code_block"
      /\ last # NoCall
      /\ last.args = inputs'
      /\ last.snapshot = project_context
      /\ ~IsRaise(last.result) /\ ~IsRaise(result'))
     => result' = last.result]_vars

----------------------------------------------------------------------------
(* The advice functions: suggest_next_actions and analyze_code_quality of  *)
(* ClaudeArgusIntegration and generate_task_recommendations of the plugin. *)
(* A message is kept as the rule that appended it and the value the        *)
(* message interpolates (PyNone: none).                                    *)

Advice(rule, v) == [rule |-> rule, v |-> v]

\* the first exception among the parts, or the list of their messages
Appended(parts) ==
  IF IsRaise(Collect(parts)) THEN Collect(parts)
  ELSE PyList(Flatten([i \in DOMAIN parts |-> parts[i].xs]))

\* v < limit for an int limit
LessThan(v, limit) == NumberOf(v) < limit

\* lines 293-294
ErrorsAdvice(errors) ==
  IF IsRaise(errors) THEN errors
  ELSE IF ~Truthy(errors) THEN EmptyList
  ELSE IF IsRaise(PyLen(errors)) THEN PyLen(errors)
  ELSE PyList(<<Advice("fix-errors", PyLen(errors))>>)

\* lines 297-299
GitAdvice(is_dirty) ==
  IF IsRaise(is_dirty) THEN is_dirty
  ELSE PyList(Opt(Truthy(is_dirty), Advice("commit-changes", PyNone)))

GoodHealth == 90

\* variant: a score of 90 still asks for better quality
HealthAdvice_Inclusive(health_score) ==
  IF IsRaise(health_score) THEN health_score
  ELSE IF ~IsNumber(health_score) THEN Raise("TypeError")
  ELSE PyList(Opt(NumberOf(health_score) <= GoodHealth,
                  Advice("improve-quality", health_score)))

\* lines 302-304
HealthAdvice(health_score) ==
  IF IsRaise(health_score) THEN health_score
  ELSE IF ~IsNumber(health_score) THEN Raise("TypeError")
  ELSE PyList(Opt(LessThan(health_score, GoodHealth),
                  Advice("improve-quality", health_score)))

\* lines 307-308
DependencyAdvice(dependencies) ==
  IF IsRaise(dependencies) THEN dependencies
  ELSE IF ~IsNumber(dependencies) THEN Raise("TypeError")
  ELSE PyList(Opt(NumberOf(dependencies) > 0,
                  Advice("review-dependencies", PyNone)))

\* lines 310-313
OrFallback(suggestions) ==
  IF IsRaise(suggestions) THEN suggestions
  ELSE IF suggestions.xs = <<>>
       THEN PyList(<<Advice("looks-good", PyNone)>>)
  ELSE suggestions

\* lines 289-313, for the context of line 289
NextActionsOf(ctx) ==
  IF IsRaise(ctx) THEN ctx
  ELSE OrFallback(Appended(
         << ErrorsAdvice(PyGet(ctx, "active_errors", PyNone)),
            GitAdvice(PyGet(PyGet(ctx, "git_status", EmptyDict),
                            "is_dirty", PyNone)),
            HealthAdvice(PyGet(PyGet(ctx, "health", EmptyDict),
                               "health_score", PyInt(0))),
            DependencyAdvice(PyGet(ctx, "dependencies", PyInt(0))) >>))

\* ClaudeArgusIntegration.suggest_next_actions
suggest_next_actions(m) == NextActionsOf(get_project_context(m))

\* variant: an error without a severity counts under every severity
SeverityCount_MissingCounts(errors, severity) ==
  IF ~Iterable(errors) THEN IterError(errors)
  ELSE IF \E i \in DOMAIN Elements(errors) : Elements(errors)[i].t # "dict"
       THEN Raise("AttributeError")
  ELSE PyInt(Cardinality(
         {i \in DOMAIN Elements(errors) :
            PyGet(Elements(errors)[i], "severity", PyStr(severity))
              = PyStr(severity)}))

\* len([e for e in errors if e.get("severity") == severity])
SeverityCount(errors, severity) ==
  IF ~Iterable(errors) THEN IterError(errors)
  ELSE IF \E i \in DOMAIN Elements(errors) : Elements(errors)[i].t # "dict"
       THEN Raise("AttributeError")
  ELSE PyInt(Cardinality(
         {i \in DOMAIN Elements(errors) :
            PyGet(Elements(errors)[i], "severity",
                PyNone) = PyStr(severity)}))

FairScore == 80
TodoLimit == 20

\* lines 276-283, for the values of the dict of lines 266-273
QualityRecommendations(overall_score, critical_issues, todo_count) ==
  IF ~IsNumber(overall_score) THEN Raise("TypeError")
  ELSE PyList(Opt(critical_issues.n > 0, Advice("critical-issues", PyNone))
              \o Opt(LessThan(overall_score, FairScore), Advice("score",
                  PyNone))
              \o Opt(todo_count.n > TodoLimit, Advice("todos", PyNone)))

\* lines 266-285, for the values in the order the dict literal evaluates them
QualityFrom(vs) ==
  IF IsRaise(Collect(vs)) THEN Collect(vs)
  ELSE IF IsRaise(QualityRecommendations(vs[1], vs[2], vs[5]))
       THEN QualityRecommendations(vs[1], vs[2], vs[5])
  ELSE PyDict([overall_score |-> vs[1],
               critical_issues |-> vs[2],
               warnings |-> vs[3],
               technical_debt |-> vs[4],
               todo_count |-> vs[5],
               recommendations |-> QualityRecommendations(vs[1], vs[2],
                   vs[5])])

\* lines 262-285, for what the three client operations returned
QualityOf(health, errors, todos) ==
  QualityFrom(<< PyGet(health, "health_score", PyInt(0)),
                 SeverityCount(errors, <<"e", "r", "r", "o", "r">>),
                 SeverityCount(errors, <<"w", "a", "r", "n", "i", "n", "g">>),
                 PyGet(health, "technical_debt", PyStr(<<"unknown">>)),
                 PyLen(todos) >>)

\* ClaudeArgusIntegration.analyze_code_quality
analyze_code_quality(m) ==
  QualityOf(get_project_health(m["get_project_health"]),
            get_active_errors(m["get_active_errors"]),
            get_todos(m["get_todos"]))

\* "a" in task_lower or "b" in task_lower ...
AnyKeyword(task_lower, keywords) ==
  \E k \in keywords : Contains(task_lower, k)

\* lines 150-153
BugFixAdvice(task_lower, active_errors) ==
  IF ~AnyKeyword(task_lower, {<<"b", "u", "g">>, <<"f", "i", "x">>, <<"e", "r",
      "r", "o", "r">>}) THEN EmptyList
  ELSE IF IsRaise(active_errors) THEN active_errors
  ELSE IF ~IsNumber(active_errors) THEN Raise("TypeError")
  ELSE PyList(<<Advice("bug-fix", PyNone)>>
              \o Opt(NumberOf(active_errors) > 0, Advice("review-errors",
                  PyNone)))

FeatureHealth == 70

\* lines 155-160
FeatureAdvice(task_lower, health_score) ==
  IF ~AnyKeyword(task_lower, {<<"f", "e", "a", "t", "u", "r", "e">>, <<"a",
      "d", "d">>, <<"i", "m", "p", "l", "e", "m", "e", "n",
      "t">>}) THEN EmptyList
  ELSE IF IsRaise(health_score) THEN health_score
  ELSE IF ~IsNumber(health_score) THEN Raise("TypeError")
  ELSE IF LessThan(health_score, FeatureHealth)
       THEN PyList(<<Advice("feature-caution", PyNone)>>)
  ELSE PyList(<<Advice("feature-proceed", PyNone)>>)

\* lines 162-164
RefactorAdvice(task_lower) ==
  IF ~AnyKeyword(task_lower, {<<"r", "e", "f", "a", "c", "t", "o", "r">>,
      <<"i", "m", "p", "r", "o", "v", "e">>}) THEN EmptyList
  ELSE PyList(<<Advice("refactor-tests-first", PyNone),
                Advice("refactor-snapshots", PyNone)>>)

\* lines 166-168
TestAdvice(task_lower) ==
  IF ~Contains(task_lower, <<"t", "e", "s", "t">>) THEN EmptyList
  ELSE PyList(<<Advice("test-edge-cases", PyNone),
                Advice("test-coverage", PyNone)>>)

\* lines 144-170, for the summary of line 145 and the task as lines 150-166
\* read it
TaskAdvice(text, summary) ==
  IF IsRaise(summary) THEN summary
  ELSE Appended(<< BugFixAdvice(text, PyGet(summary, "active_errors",
      PyInt(0))),
                   FeatureAdvice(text, PyGet(summary, "health_score",
                       PyInt(0))),
                   RefactorAdvice(text),
                   TestAdvice(text) >>)

\* variant: the keywords are looked for in the task as it was written
generate_task_recommendations_AsWritten(task, ctx) ==
  TaskAdvice(task, PyGet(ctx, "summary", EmptyDict))

\* claude_code_plugin.generate_task_recommendations
generate_task_recommendations(task, ctx) ==
  TaskAdvice(StrLower(task), PyGet(ctx, "summary", EmptyDict))

\* claude_argus_helpers.get_next_actions
get_next_actions(m) ==
  IF ~is_argus_available(m)
  THEN PyList(<<Advice("argus-unavailable", PyNone)>>)
  ELSE suggest_next_actions(m)

\* claude_argus_helpers.analyze_code_quality
analyze_code_quality_helper(m) ==
  IF ~is_argus_available(m) THEN HelperErrorDict ELSE analyze_code_quality(m)

ErrorsShown == 5

\* lines 31-39 of the plugin, for the values of lines 26-29; context_string
\* and recommendations, which no advice function reads, are left out
CurrentContext(summary, errors, actions, quality) ==
  IF IsRaise(Collect(<<summary, errors, actions, quality,
                       PySlice(errors, ErrorsShown)>>))
  THEN Collect(<<summary, errors, actions, quality,
                 PySlice(errors, ErrorsShown)>>)
  ELSE PyDict([status |-> PyStr(<<"available">>),
               summary |-> summary,
               errors |-> PySlice(errors, ErrorsShown),
               next_actions |-> actions,
               code_quality |-> quality])

\* claude_code_plugin.analyze_current_context
analyze_current_context(m) ==
  IF ~is_argus_available(m) THEN PyDict([status |-> PyStr(<<"unavailable">>)])
  ELSE CurrentContext(get_project_summary(m), get_current_errors(m),
                      get_next_actions(m), analyze_code_quality_helper(m))

----------------------------------------------------------------------------
(* The advice functions as a state machine: one call against a monitor     *)
(* that reports a project state.  context holds the context that           *)
(* suggest_next_actions read.                                              *)

Severe(i) == PyDict([id |-> PyInt(i), severity |-> PyStr(<<"e", "r", "r", "o",
    "r">>)])

\* three errors: one critical, one warning, one without a severity
MixedErrors ==
  PyList(<< Severe(1),
            PyDict([id |-> PyInt(2), severity |-> PyStr(<<"w", "a", "r", "n",
                "i", "n", "g">>)]),
            Item(3) >>)

\* no critical error: a warning, a severity spelled otherwise, none
MildErrors ==
  PyList(<< PyDict([id |-> PyInt(1), severity |-> PyStr(<<"w", "a", "r", "n",
      "i", "n", "g">>)]),
            PyDict([id |-> PyInt(2), severity |-> PyStr(<<"E", "r", "r", "o",
                "r">>)]),
            PyDict([id |-> PyInt(3), message |-> PyStr(<<"e", "r", "r", "o",
                "r">>)]) >>)

\* more errors than the context keeps
ManyErrors == PyList([i \in 1..MaxItems |-> Severe(i)])

Scores == {40, 69, 70, 79, 80, 89, 90, 95}
ErrorLists == {EmptyList, MixedErrors, MildErrors, ManyErrors}
DependencyCounts == {0, 2}
TodoCounts == {TodoLimit, TodoLimit + 1}

\* a monitor that is up and reports the given project state
Reporting(score, errors, dirty, deps, todos) ==
  [NominalMonitor EXCEPT
     !["is_available"] = Http(200, HealthBody(score)),
     !["get_project_health"] = Http(200, HealthBody(score)),
     !["get_git_status"] = Http(200, GitBody(dirty)),
     !["get_active_errors"] = Http(200, Named("get_active_errors", errors)),
     !["get_dependencies"] = Http(200, Named("get_dependencies",
         Items(deps))),
     !["get_todos"] = Http(200, Named("get_todos", Items(todos)))]

\* monitors whose reports the advice functions cannot read: a git status
\* that is a list, a score that is a text, an error that is a text
MonitorGitList ==
  [NominalMonitor EXCEPT !["get_git_status"] = Http(200, Items(1))]
MonitorScoreText ==
  [NominalMonitor EXCEPT
     !["get_project_health"] =
        Http(200, PyDict([score |-> PyStr(<<"high">>)]))]

\* a monitor that is up while its errors and dependencies endpoints fail
MonitorPartial ==
  [NominalMonitor EXCEPT
     !["get_active_errors"] = TransportFailure("Timeout"),
     !["get_dependencies"] = Http(500, NotJson)]

AdviceMonitors ==
  {Reporting(s, e, g, d, t) :
     s \in Scores, e \in ErrorLists, g \in BOOLEAN,
     d \in DependencyCounts, t \in TodoCounts}
  \cup {MonitorDown, MonitorTroubled, MonitorPartial, MonitorGitList,
        MonitorScoreText}

Tasks ==
  {<<"F", "i", "x", " ", "t", "h", "e", " ", "l", "o", "g", "i", "n", " ", "B",
      "u", "g">>, <<"p", "r", "e", "f", "i", "x">>, <<"h", "a", "n", "d", "l",
      "e", " ", "E", "R", "R", "O", "R", "S">>, <<"A", "d", "d", " ", "e", "x",
      "p", "o", "r", "t">>, <<"I", "m", "p", "l", "e", "m", "e", "n", "t">>,
   <<"n", "e", "w", " ", "f", "e", "a", "t", "u", "r", "e">>, <<"I", "M", "P",
       "R", "O", "V", "E", " ", "t", "h", "e", " ", "l", "a", "t", "e", "s",
       "t">>, <<"r", "e", "f", "a", "c", "t", "o", "r", " ", "a", "n", "d",
       " ", "i", "m", "p", "l", "e", "m", "e", "n", "t", " ", "e", "r", "r",
       "o", "r", " ", "t", "e", "s", "t", "s">>,
   <<"w", "r", "i", "t", "e", " ", "d", "o", "c", "s">>, <<>>}

TaskArgs(task, ctx) == [task |-> task, context |-> ctx]

\* one call of suggest_next_actions
SuggestNextActions ==
  /\ pc = "idle"
  /\ call' = "suggest_next_actions"
  /\ inputs' = NoArgs
  /\ result' = suggest_next_actions(monitor)
  /\ context' = IF IsRaise(get_project_context(monitor)) THEN context
                ELSE get_project_context(monitor).d
  /\ requests' = ContextLog(monitor)
  /\ pc' = "done"
  /\ UNCHANGED <<replies, deviations, monitor, project_context, language,
      last>>

\* one call of analyze_code_quality
AnalyzeCodeQuality ==
  /\ pc = "idle"
  /\ call' = "analyze_code_quality"
  /\ inputs' = NoArgs
  /\ result' = analyze_code_quality(monitor)
  /\ requests' = <<Req("get_project_health"), Req("get_active_errors"),
                   Req("get_todos")>>
  /\ pc' = "done"
  /\ UNCHANGED <<context, replies, deviations, monitor, project_context,
                 language, last>>

\* one call of generate_task_recommendations on the context that
\* analyze_current_context returned
GenerateTaskRecommendations ==
  \E task \in Tasks :
    /\ pc = "idle"
    /\ ~IsRaise(analyze_current_context(monitor))
    /\ call' = "generate_task_recommendations"
    /\ inputs' = TaskArgs(task, analyze_current_context(monitor))
    /\ result' = generate_task_recommendations(task, inputs'.context)
    /\ requests' = <<>>
    /\ pc' = "done"
    /\ UNCHANGED <<context, replies, deviations, monitor, project_context,
                   language, last>>

AdviceInit ==
  /\ pc = "idle"
  /\ call = ""
  /\ context = [k \in {} |-> PyNone]
  /\ result = NoResult
  /\ requests = <<>>
  /\ replies = <<>>
  /\ deviations = 0
  /\ monitor \in AdviceMonitors
  /\ inputs = NoArgs
  /\ project_context = PyNone
  /\ language = ""
  /\ last = NoCall

AdviceNext ==
  SuggestNextActions \/ AnalyzeCodeQuality \/ GenerateTaskRecommendations

\* the advice functions against a monitor that stays as it is
SpecAdvice == AdviceInit /\ [][AdviceNext]_vars

----------------------------------------------------------------------------
(* Properties of the advice functions *)

\* the rules of a list of messages, in order
RuleSeq(xs) == [i \in DOMAIN xs |-> xs[i].rule]

SuggestReturned ==
  pc = "done" /\ call = "suggest_next_actions" /\ ~IsRaise(result)

\* what the context read by suggest_next_actions holds under a key
Field(key,
    default) == IF key \in DOMAIN context THEN context[key] ELSE default

\* the value of a key of a dict of the context
SubField(key, sub, default) ==
  IF sub \in DOMAIN Field(key, EmptyDict).d
  THEN Field(key, EmptyDict).d[sub] ELSE default

\* the four conditions of the decision table, on the context
HasErrors == Len(ItemsOf(Field("active_errors", EmptyList))) > 0
IsDirty == SubField("git_status", "is_dirty", PyBool(FALSE)) = PyBool(TRUE)
LowScore == SubField("health", "health_score", PyInt(0)).n < 90
HasDependencies == Field("dependencies", PyInt(0)).n > 0

\* the rules whose condition holds, in the order of the table
TableRules ==
  Opt(HasErrors, "fix-errors") \o Opt(IsDirty, "commit-changes")
  \o Opt(LowScore, "improve-quality") \o Opt(HasDependencies,
      "review-dependencies")

(* C12: what suggest_next_actions returns is the list of the rules         *)
(* fix-errors, commit-changes, improve-quality, review-dependencies whose  *)
(* condition holds of the context (errors non-empty, git dirty, health     *)
(* score < 90, dependency count > 0), in that order, each whatever the     *)
(* others; the fallback is returned, alone, exactly when none holds; the   *)
(* list is never empty.                                                    *)
C12_DecisionTable ==
  SuggestReturned =>
    /\ result.t = "list" /\ result.xs # <<>>
    /\ RuleSeq(result.xs)
         = IF TableRules = <<>> THEN <<"looks-good">> ELSE TableRules
    /\ "looks-good" \in Rules(result.xs)
         <=> ~(HasErrors \/ IsDirty \/ LowScore \/ HasDependencies)

\* health 40, three errors, dirty, two dependencies: all four, in order
C12_Witness ==
  /\ SuggestReturned
  /\ monitor = Reporting(40, MixedErrors, TRUE, 2, TodoLimit)
  /\ RuleSeq(result.xs) = <<"fix-errors", "commit-changes", "improve-quality",
                            "review-dependencies">>

\* health 95, no errors, clean, no dependencies: the fallback alone
C12_WitnessFallback ==
  /\ SuggestReturned
  /\ monitor = Reporting(95, EmptyList, FALSE, 0, TodoLimit)
  /\ RuleSeq(result.xs) = <<"looks-good">>

\* the errors the monitor's errors endpoint reports
ReportedErrors == get_active_errors(monitor["get_active_errors"])

(* C13: the count in the fix-errors message of suggest_next_actions is the *)
(* number of errors the monitor reports, also when it reports more than    *)
(* the ten that the context keeps.                                         *)
C13_TrueCount ==
  SuggestReturned =>
    \A i \in DOMAIN result.xs :
      result.xs[i].rule = "fix-errors"
        => result.xs[i].v = PyInt(Len(ItemsOf(ReportedErrors)))

TaskDone == pc = "done" /\ call = "generate_task_recommendations"

\* a keyword of the set occurs in the lower-cased task
TaskHas(keywords) ==
  \E k \in keywords : Contains(StrLower(inputs.task), k)

\* a number of the summary handed over, 0 when there is none
SummaryNumber(key) ==
  IF "summary" \notin DOMAIN inputs.context.d THEN 0
  ELSE IF key \notin DOMAIN inputs.context.d["summary"].d THEN 0
  ELSE inputs.context.d["summary"].d[key].n

BugFixRules ==
  IF ~TaskHas({<<"b", "u", "g">>, <<"f", "i", "x">>, <<"e", "r", "r", "o",
      "r">>}) THEN <<>>
  ELSE <<"bug-fix">> \o Opt(SummaryNumber("active_errors") > 0,
      "review-errors")

FeatureRules ==
  IF ~TaskHas({<<"f", "e", "a", "t", "u", "r", "e">>, <<"a", "d", "d">>, <<"i",
      "m", "p", "l", "e", "m", "e", "n", "t">>}) THEN <<>>
  ELSE IF SummaryNumber("health_score") < 70 THEN <<"feature-caution">>
  ELSE <<"feature-proceed">>

RefactorRules ==
  IF ~TaskHas({<<"r", "e", "f", "a", "c", "t", "o", "r">>, <<"i", "m", "p",
      "r", "o", "v", "e">>}) THEN <<>>
  ELSE <<"refactor-tests-first", "refactor-snapshots">>

TestRules ==
  IF ~TaskHas({<<"t", "e", "s", "t">>}) THEN <<>>
  ELSE <<"test-edge-cases", "test-coverage">>

(* C14: generate_task_recommendations returns the messages of the          *)
(* categories bug-fix, feature, refactor, test, in that order, of every    *)
(* category one of whose keywords occurs in the lower-cased task; bug-fix  *)
(* adds review-errors only when the summary's error count is above 0;      *)
(* feature gives one message, caution below health 70 and proceed          *)
(* otherwise; refactor gives both of its messages; no keyword, no message. *)
C14_TaskCategories ==
  TaskDone =>
    /\ result.t = "list"
    /\ RuleSeq(result.xs)
         = BugFixRules \o FeatureRules \o RefactorRules \o TestRules
    /\ inputs.task \in {<<"w", "r", "i", "t", "e", " ", "d", "o", "c", "s">>,
        <<>>} => result.xs = <<>>
    /\ inputs.task = <<"p", "r", "e", "f", "i",
        "x">> => Head(result.xs).rule = "bug-fix"
    /\ inputs.task = <<"I", "M", "P", "R", "O", "V", "E", " ", "t", "h", "e",
        " ", "l", "a", "t", "e", "s", "t">>
         => RuleSeq(result.xs) = <<"refactor-tests-first",
             "refactor-snapshots",
                                   "test-edge-cases", "test-coverage">>

\* a task of all four categories on a healthy project with errors
C14_Witness ==
  /\ TaskDone
  /\ inputs.task = <<"r", "e", "f", "a", "c", "t", "o", "r", " ", "a", "n",
      "d", " ", "i", "m", "p", "l", "e", "m", "e", "n", "t", " ", "e", "r",
      "r", "o", "r", " ", "t", "e", "s", "t", "s">>
  /\ SummaryNumber("active_errors") = 3
  /\ SummaryNumber("health_score") = 70
  /\ RuleSeq(result.xs)
       = <<"bug-fix", "review-errors", "feature-proceed",
           "refactor-tests-first", "refactor-snapshots",
           "test-edge-cases", "test-coverage">>

QualityReturned ==
  pc = "done" /\ call = "analyze_code_quality" /\ ~IsRaise(result)

\* the errors analyze_code_quality was given that carry the severity
WithSeverity(severity) ==
  {i \in DOMAIN ReportedErrors.xs :
     /\ "severity" \in DOMAIN ReportedErrors.xs[i].d
     /\ ReportedErrors.xs[i].d["severity"] = PyStr(severity)}

\* the number under a key of the dict returned
Reported(key) == result.d[key].n

(* C15: analyze_code_quality reports as critical_issues the number of      *)
(* errors whose severity is "error" and as warnings the number whose       *)
(* severity is "warning", an error without a severity counting as neither; *)
(* its recommendations are those of critical-issues, score, todos whose    *)
(* check holds (critical_issues > 0, overall score < 80, todo count > 20), *)
(* in that order, each whatever the others.                                *)
C15_QualityChecks ==
  QualityReturned =>
    /\ Reported("critical_issues") = Cardinality(WithSeverity(<<"e", "r", "r",
        "o", "r">>))
    /\ Reported("warnings") = Cardinality(WithSeverity(<<"w", "a", "r", "n",
        "i", "n", "g">>))
    /\ Reported("todo_count") = Len(get_todos(monitor["get_todos"]).xs)
    /\ RuleSeq(result.d["recommendations"].xs)
         = Opt(Reported("critical_issues") > 0, "critical-issues")
           \o Opt(Reported("overall_score") < 80, "score")
           \o Opt(Reported("todo_count") > 20, "todos")

\* one critical error, one warning, one error without a severity, score 79
\* and 21 todos: all three recommendations
C15_Witness ==
  /\ QualityReturned
  /\ monitor = Reporting(79, MixedErrors, FALSE, 0, TodoLimit + 1)
  /\ Reported("critical_issues") = 1 /\ Reported("warnings") = 1
  /\ RuleSeq(result.d["recommendations"].xs) = <<"critical-issues", "score",
      "todos">>

----------------------------------------------------------------------------
(* Properties of single rules *)

\* line i of the code of the call holds the loop token
HasLoopToken(i) == Contains(InputLines[i], <<"f", "o", "r", " ">>)

\* the nested-loop findings of a result r for line i
NestedLoopFindings(r, i) ==
  {k \in DOMAIN Category(r, "performance_hints") :
     /\ Category(r, "performance_hints")[k].rule = "nested-loops"
     /\ Category(r, "performance_hints")[k].line = i}

(* C22: line i, counted from 1, has a nested-loop finding exactly when it  *)
(* holds the loop token and so does one of the lines i+1 .. min(i+5, last  *)
(* line); the line itself is not inspected, and a line has at most one     *)
(* such finding however many of the following lines match.                 *)
C22_NestedLoops ==
  AnalysisReturned =>
    /\ \A i \in DOMAIN InputLines :
         Cardinality(NestedLoopFindings(result, i))
           = IF /\ HasLoopToken(i)
                /\ \E j \in (i + 1)..Min(i + 5,
                    Len(InputLines)) : HasLoopToken(j)
             THEN 1 ELSE 0
    /\ \A k \in DOMAIN Category(result, "performance_hints") :
         Category(result, "performance_hints")[k].rule = "nested-loops"
           => Category(result,
               "performance_hints")[k].line \in DOMAIN InputLines

\* of the loops on lines 1, 7, 12, 13 and 14, those on 7, 12 and 13 are
\* flagged, once each
C22_Witness ==
  /\ AnalysisReturned
  /\ inputs.code = CodeLoops /\ language = ""
  /\ Category(result, "performance_hints")
       = <<Finding("nested-loops", 7, 0, <<>>),
           Finding("nested-loops", 12, 0, <<>>),
           Finding("nested-loops", 13, 0, <<>>)>>

JsAnalysisReturned ==
  AnalysisReturned /\ language \in {"javascript", "typescript"}

\* the findings of a rule in a category of the result
RuleFindings(key, rule) ==
  {k \in DOMAIN Category(result, key) : Category(result, key)[k].rule = rule}

(* C23: for javascript and typescript the semicolons finding is in the     *)
(* style category, once, exactly when twice the number of semicolons is    *)
(* below the number of lines of the text, the lines being the pieces of    *)
(* the text split on newline; a one-line text without a semicolon has it.  *)
C23_SemicolonDensity ==
  JsAnalysisReturned =>
    Cardinality(RuleFindings("style_improvements", "semicolons"))
      = IF 2 * CountChar(inputs.code, ";") < Len(InputLines) THEN 1 ELSE 0

\* the score the result would have without the findings of the two rules
ScoreWithout(rules) ==
  100 - Min(80, 10 * (IssueCount(result)
                        - Cardinality({k \in DOMAIN Category(result,
                            "quality_issues") :
                             Category(result,
                                 "quality_issues")[k].rule \in rules})))

(* C24: for javascript and typescript the strict-equality finding and the  *)
(* var finding are in the style category, not among the quality issues,    *)
(* and the score is what it is without them.                               *)
C24_JsFindingsAreStyle ==
  JsAnalysisReturned =>
    /\ RuleFindings("quality_issues", "strict-equality") = {}
    /\ RuleFindings("quality_issues", "var") = {}
    /\ (Contains(inputs.code, <<"=", "=">>) /\ ~Contains(inputs.code, <<"=",
        "=", "=">>))
         => RuleFindings("style_improvements", "strict-equality") # {}
    /\ Contains(inputs.code, <<"v", "a", "r", " ">>)
         => RuleFindings("style_improvements", "var") # {}
    /\ result.d["overall_score"] = PyInt(ScoreWithout({"strict-equality",
        "var"}))

----------------------------------------------------------------------------
(* The helper functions while the monitor comes and goes.  One call of a   *)
(* helper sends its requests one after the other; the monitor answers the  *)
(* k-th request of the call as m does, except that it is down for the      *)
(* requests down_from .. up_from - 1, where every request fails in the     *)
(* transport.  A run is the client operations requested so far, in order,  *)
(* and the value the function returned (or the exception it raised).       *)

World(m, down_from, up_from) ==
  [m |-> m, down_from |-> down_from, up_from |-> up_from]

IsUp(w, k) == k < w.down_from \/ k >= w.up_from

ReplyTo(w, k, op) ==
  IF IsUp(w, k) THEN w.m[op] ELSE TransportFailure("ConnectionError")

Run(ops, v) == [ops |-> ops, v |-> v]

\* the reply to the request that follows the requests ops
NextReply(w, ops, op) == ReplyTo(w, Len(ops) + 1, op)

\* claude_argus_helpers.is_argus_available
is_argus_available_at(w, ops) ==
  Run(Append(ops, "is_available"),
      PyBool(is_available(NextReply(w, ops, "is_available"))))

\* one operation of ArgusClient
ClientRun(w, ops, op) ==
  Run(Append(ops, op), OpResult(op, NextReply(w, ops, op)))

RECURSIVE ContextRunFrom(_, _, _, _)
ContextRunStep(w, ops, k, acc, v) ==
  IF IsRaise(v) THEN Run(ops, v)
  ELSE ContextRunFrom(w, ops, k + 1, acc @@ (SubQueries[k].key :> v))

\* lines 245-258: the sub-queries from the k-th on
ContextRunFrom(w, ops, k, acc) ==
  IF k > Len(SubQueries) THEN Run(ops, PyDict(acc))
  ELSE ContextRunStep(w, Append(ops, SubQueries[k].op), k, acc,
                      FieldValue(SubQueries[k].key,
                                 OpResult(SubQueries[k].op,
                                          NextReply(w, ops,
                                              SubQueries[k].op))))

ContextAfter(w, probe) ==
  IF ~probe.v.b THEN Run(probe.ops, NotAvailable)
  ELSE ContextRunFrom(w, probe.ops, 1, [timestamp |-> Now])

\* ClaudeArgusIntegration.get_project_context
get_project_context_at(w, ops) ==
  ContextAfter(w, is_argus_available_at(w, ops))

\* variant: suggest_next_actions answers an error marker with the fallback
NextActionsRun_Fallback(r) ==
  Run(r.ops, IF IsRaise(r.v) THEN r.v
             ELSE IF "error" \in DOMAIN r.v.d
                  THEN PyList(<<Advice("looks-good", PyNone)>>)
             ELSE NextActionsOf(r.v))

\* lines 290-313 on the context of line 289
NextActionsRun(r) == Run(r.ops, NextActionsOf(r.v))

\* ClaudeArgusIntegration.suggest_next_actions
suggest_next_actions_at(w, ops) ==
  NextActionsRun(get_project_context_at(w, ops))

\* the value a helper returns when its probe fails
Marker(helper) ==
  CASE helper \in {"get_current_errors", "get_project_languages",
                   "search_project", "get_running_processes", "get_todos"}
         -> HelperErrorList
    [] helper = "get_next_actions"
         -> PyList(<<Advice("argus-unavailable", PyNone)>>)
    [] OTHER -> HelperErrorDict

\* the client operation behind a helper that passes one operation through
ClientOpOf(helper) ==
  CASE helper = "get_current_errors" -> "get_active_errors"
    [] helper = "get_project_languages" -> "get_detected_languages"
    [] helper = "search_project" -> "search_project"
    [] helper = "get_git_status" -> "get_git_status"
    [] helper = "get_project_structure" -> "get_project_structure"
    [] helper = "get_running_processes" -> "get_running_processes"
    [] helper = "get_todos" -> "get_todos"
    [] helper = "create_snapshot" -> "create_investigation_snapshot"
    [] helper = "add_finding" -> "add_investigation_finding"
    [] helper = "add_question" -> "add_investigation_question"

PassThroughHelpers ==
  {"get_current_errors", "get_project_languages", "search_project",
   "get_git_status", "get_project_structure", "get_running_processes",
   "get_todos", "create_snapshot", "add_finding", "add_question"}

\* variant: the operation is requested whatever the probe said
PassThroughAfter_Unprobed(w, helper, probe) ==
  ClientRun(w, probe.ops, ClientOpOf(helper))

\* the two lines after the probe of a helper that passes one operation
\* through
PassThroughAfter(w, helper, probe) ==
  IF ~probe.v.b THEN Run(probe.ops, Marker(helper))
  ELSE ClientRun(w, probe.ops, ClientOpOf(helper))

\* the helpers of claude_argus_helpers lines 50-132 that pass one operation
\* through
PassThrough(w, ops, helper) ==
  PassThroughAfter(w, helper, is_argus_available_at(w, ops))

SummaryRun(r) == Run(r.ops, SummaryOf(r.v))

SummaryAfter(w, probe) ==
  IF ~probe.v.b THEN Run(probe.ops, Marker("get_project_summary"))
  ELSE SummaryRun(get_project_context_at(w, probe.ops))

\* claude_argus_helpers.get_project_summary
get_project_summary_at(w, ops) ==
  SummaryAfter(w, is_argus_available_at(w, ops))

NextActionsAfter(w, probe) ==
  IF ~probe.v.b THEN Run(probe.ops, Marker("get_next_actions"))
  ELSE suggest_next_actions_at(w, probe.ops)

\* claude_argus_helpers.get_next_actions
get_next_actions_at(w, ops) ==
  NextActionsAfter(w, is_argus_available_at(w, ops))

\* lines 262-264 of the integration, one request after the other
QualityRun3(health, errors, todos) ==
  Run(todos.ops, QualityOf(health.v, errors.v, todos.v))
QualityRun2(w, health, errors) ==
  QualityRun3(health, errors, ClientRun(w, errors.ops, "get_todos"))
QualityRun1(w, health) ==
  QualityRun2(w, health, ClientRun(w, health.ops, "get_active_errors"))

\* ClaudeArgusIntegration.analyze_code_quality
analyze_code_quality_at(w, ops) ==
  QualityRun1(w, ClientRun(w, ops, "get_project_health"))

QualityAfter(w, probe) ==
  IF ~probe.v.b THEN Run(probe.ops, Marker("analyze_code_quality"))
  ELSE analyze_code_quality_at(w, probe.ops)

\* claude_argus_helpers.analyze_code_quality
analyze_code_quality_helper_at(w, ops) ==
  QualityAfter(w, is_argus_available_at(w, ops))

\* lines 140-156 of the helpers, one call after the other
FileAnalysisRun3(file_path, search, errors, ctx) ==
  Run(ctx.ops, FileAnalysisOf(file_path, search.v, errors.v, ctx.v))
FileAnalysisRun2(w, file_path, search, errors) ==
  FileAnalysisRun3(file_path, search, errors,
                   get_project_context_at(w, errors.ops))
FileAnalysisRun1(w, file_path, search) ==
  FileAnalysisRun2(w, file_path, search,
                   PassThrough(w, search.ops, "get_current_errors"))

FileAnalysisAfter(w, file_path, probe) ==
  IF ~probe.v.b THEN Run(probe.ops, Marker("get_file_analysis"))
  ELSE FileAnalysisRun1(w, file_path,
                        PassThrough(w, probe.ops, "search_project"))

\* claude_argus_helpers.get_file_analysis
get_file_analysis_at(w, ops, file_path) ==
  FileAnalysisAfter(w, file_path, is_argus_available_at(w, ops))

\* a text the helpers format, kept as its lines: the kind of each line and
\* the values it interpolates
Text(lines) == [t |-> "text", lines |-> lines]
TextLine(kind, vals) == [kind |-> kind, vals |-> vals]

SummaryKeys ==
  <<"health_score", "total_files", "project_type", "languages",
    "active_errors", "git_branch", "is_dirty">>

\* summary[key] for each key, in the order the text reads them
SummaryValues(summary, keys) ==
  Collect([i \in DOMAIN keys |-> PyItem(summary, keys[i])])

\* lines 188-199 of the helpers, for the summary of line 187
ClaudeContextOf(summary) ==
  IF IsRaise(summary) THEN summary
  ELSE IF "error" \in DOMAIN summary.d
       THEN Text(<<TextLine("argus-error", <<summary.d["error"]>>)>>)
  ELSE IF IsRaise(SummaryValues(summary, SummaryKeys))
       THEN SummaryValues(summary, SummaryKeys)
  ELSE Text(<<TextLine("context", SummaryValues(summary, SummaryKeys).xs)>>)

ClaudeContextRun(r) == Run(r.ops, ClaudeContextOf(r.v))

ClaudeContextAfter(w, probe) ==
  IF ~probe.v.b THEN Run(probe.ops, Text(<<TextLine("unavailable", <<>>)>>))
  ELSE ClaudeContextRun(get_project_summary_at(w, probe.ops))

\* claude_argus_helpers.get_claude_context
get_claude_context_at(w, ops) ==
  ClaudeContextAfter(w, is_argus_available_at(w, ops))

DetailShown == 3

\* the first DetailShown values of a list, numbered, under a header
Numbered(header, kind, v) ==
  IF IsRaise(v) THEN v
  ELSE IF ~Truthy(v) THEN EmptyList
  ELSE IF IsRaise(PySlice(v, DetailShown)) THEN PySlice(v, DetailShown)
  ELSE PyList(<<TextLine(header, <<>>)>>
              \o [i \in DOMAIN Elements(PySlice(v, DetailShown)) |->
                    TextLine(kind, <<PyInt(i), Elements(PySlice(v,
                        DetailShown))[i]>>)])

\* lines 30-32 of argus_context: project_type is read and upper-cased
\* before the other keys are read
DetailedHeader(summary) ==
  IF IsRaise(PyItem(summary, "project_type"))
  THEN PyItem(summary, "project_type")
  ELSE IF PyItem(summary, "project_type").t # "str"
       THEN Raise("AttributeError")
  ELSE IF IsRaise(SummaryValues(summary,
            <<"project_type", "health_score", "total_files",
              "active_errors", "languages", "git_branch", "is_dirty">>))
       THEN SummaryValues(summary,
            <<"project_type", "health_score", "total_files",
              "active_errors", "languages", "git_branch", "is_dirty">>)
  ELSE PyList(<<TextLine("header",
                  SummaryValues(summary,
                    <<"project_type", "health_score", "total_files",
                      "active_errors", "languages", "git_branch",
                      "is_dirty">>).xs)>>)

\* lines 34-40 of argus_context
DetailedErrors(errors) ==
  IF IsRaise(Numbered("errors", "error", errors))
  THEN Numbered("errors", "error", errors)
  ELSE PyList(Numbered("errors", "error", errors).xs
              \o Opt(Truthy(errors) /\ PyLen(errors).n > DetailShown,
                     TextLine("more",
                         <<PyInt(PyLen(errors).n - DetailShown)>>)))

\* the lines as a text
AsText(lines) == IF IsRaise(lines) THEN lines ELSE Text(lines.xs)

\* lines 29-47 of argus_context, for the values of lines 25-27
DetailedOf(summary, actions, errors) ==
  AsText(Appended(<< DetailedHeader(summary),
                     DetailedErrors(errors),
                     Numbered("actions", "action", actions) >>))

\* lines 25-27 of argus_context, one call after the other
DetailedRun3(summary, actions, errors) ==
  Run(errors.ops,
      IF IsRaise(errors.v) THEN errors.v
      ELSE DetailedOf(summary.v, actions.v, errors.v))
DetailedRun2(w, summary, actions) ==
  IF IsRaise(actions.v) THEN actions
  ELSE DetailedRun3(summary, actions,
                    PassThrough(w, actions.ops, "get_current_errors"))
DetailedRun1(w, summary) ==
  IF IsRaise(summary.v) THEN summary
  ELSE DetailedRun2(w, summary, get_next_actions_at(w, summary.ops))

DetailedAfter(w, probe) ==
  IF ~probe.v.b THEN Run(probe.ops, Text(<<TextLine("unavailable", <<>>)>>))
  ELSE DetailedRun1(w, get_project_summary_at(w, probe.ops))

\* argus_context.get_detailed_context
get_detailed_context_at(w, ops) ==
  DetailedAfter(w, is_argus_available_at(w, ops))

CriticalHealth == 50
AttentionHealth == 80
HighErrorCount == 10

\* lines 46-52 of the plugin
HealthRecommendation(health_score) ==
  IF IsRaise(health_score) THEN health_score
  ELSE IF ~IsNumber(health_score) THEN Raise("TypeError")
  ELSE PyList(<<Advice(IF LessThan(health_score, CriticalHealth)
                         THEN "health-critical"
                       ELSE IF LessThan(health_score, AttentionHealth)
                         THEN "health-attention"
                       ELSE "health-good", PyNone)>>)

\* lines 55-59 of the plugin
ErrorCountRecommendation(error_count) ==
  IF IsRaise(error_count) THEN error_count
  ELSE PyList(Opt(error_count.n > HighErrorCount,
                  Advice("high-error-count", PyNone))
              \o Opt(error_count.n > 0 /\ error_count.n <= HighErrorCount,
                     Advice("fix-active-errors", error_count)))

\* lines 62-63 of the plugin
DirtyRecommendation(is_dirty) ==
  IF IsRaise(is_dirty) THEN is_dirty
  ELSE PyList(Opt(Truthy(is_dirty), Advice("commit", PyNone)))

\* lines 66-72 of the plugin
ToolingRecommendation(project_type) ==
  IF IsRaise(project_type) THEN project_type
  ELSE PyList(Opt(project_type \in {PyStr(<<"g", "o">>), PyStr(<<"p", "y", "t",
      "h", "o", "n">>),
                                    PyStr(<<"j", "a", "v", "a", "s", "c", "r",
                                        "i", "p", "t">>), PyStr(<<"t", "y",
                                        "p", "e", "s", "c", "r", "i", "p",
                                        "t">>)},
                  Advice("tooling", project_type)))

\* claude_code_plugin.generate_recommendations; quality is not read
generate_recommendations(summary, errors, quality) ==
  Appended(<< HealthRecommendation(PyGet(summary, "health_score", PyInt(0))),
              ErrorCountRecommendation(PyLen(errors)),
              DirtyRecommendation(PyGet(summary, "is_dirty", PyBool(FALSE))),
              ToolingRecommendation(PyGet(summary, "project_type",
                                          PyStr(<<>>))) >>)

\* lines 31-39 of the plugin with the two values CurrentContext leaves out
FullContext(base, context_string, recommendations) ==
  IF IsRaise(base) THEN base
  ELSE IF IsRaise(context_string) THEN context_string
  ELSE IF IsRaise(recommendations) THEN recommendations
  ELSE PyDict(base.d @@ [context_string |-> context_string,
                         recommendations |-> recommendations])

\* lines 26-39 of the plugin, one call after the other
CurrentContextRun5(summary, errors, actions, quality, text) ==
  Run(text.ops,
      FullContext(CurrentContext(summary.v, errors.v, actions.v, quality.v),
                  text.v, generate_recommendations(summary.v, errors.v,
                      quality.v)))
CurrentContextRun4(w, summary, errors, actions, quality) ==
  IF IsRaise(quality.v) THEN quality
  ELSE IF IsRaise(PySlice(errors.v, ErrorsShown))
       THEN Run(quality.ops, PySlice(errors.v, ErrorsShown))
  ELSE CurrentContextRun5(summary, errors, actions, quality,
                          get_claude_context_at(w, quality.ops))
CurrentContextRun3(w, summary, errors, actions) ==
  IF IsRaise(actions.v) THEN actions
  ELSE CurrentContextRun4(w, summary, errors, actions,
                          analyze_code_quality_helper_at(w, actions.ops))
CurrentContextRun2(w, summary, errors) ==
  IF IsRaise(errors.v) THEN errors
  ELSE CurrentContextRun3(w, summary, errors,
                          get_next_actions_at(w, errors.ops))
CurrentContextRun1(w, summary) ==
  IF IsRaise(summary.v) THEN summary
  ELSE CurrentContextRun2(w, summary,
                          PassThrough(w, summary.ops, "get_current_errors"))

CurrentContextAfter(w, probe) ==
  IF ~probe.v.b
  THEN Run(probe.ops, PyDict([status |-> PyStr(<<"unavailable">>)]))
  ELSE CurrentContextRun1(w, get_project_summary_at(w, probe.ops))

\* claude_code_plugin.analyze_current_context
analyze_current_context_at(w, ops) ==
  CurrentContextAfter(w, is_argus_available_at(w, ops))

\* lines 135-140 of the plugin
InvestigationOf(task, snapshot, project_context_, recommendations) ==
  IF IsRaise(project_context_) THEN project_context_
  ELSE IF IsRaise(recommendations) THEN recommendations
  ELSE PyDict([snapshot |-> snapshot,
               task |-> PyStr(task),
               project_context |-> project_context_,
               initial_recommendations |-> recommendations])

\* lines 125-140 of the plugin, one call after the other
InvestigationRun3(task, snapshot, ctx) ==
  Run(ctx.ops,
      InvestigationOf(task, snapshot.v, ctx.v,
                      IF IsRaise(ctx.v) THEN ctx.v
                      ELSE generate_task_recommendations(task, ctx.v)))
InvestigationRun2(w, task, snapshot, question) ==
  InvestigationRun3(task, snapshot, analyze_current_context_at(w,
      question.ops))
InvestigationRun1(w, task, snapshot) ==
  InvestigationRun2(w, task, snapshot,
                    PassThrough(w, snapshot.ops, "add_question"))

\* variant: the question is asked before the snapshot is taken
InvestigationAfter_QuestionFirst(w, task, probe) ==
  IF ~probe.v.b
  THEN Run(probe.ops, PyDict([error |-> PyStr(<<"Argus not available">>)]))
  ELSE InvestigationRun3(task,
         PassThrough(w, PassThrough(w, probe.ops, "add_question").ops,
                     "create_snapshot"),
         analyze_current_context_at(w,
           PassThrough(w, PassThrough(w, probe.ops, "add_question").ops,
                       "create_snapshot").ops))

InvestigationAfter(w, task, probe) ==
  IF ~probe.v.b
  THEN Run(probe.ops, PyDict([error |-> PyStr(<<"Argus not available">>)]))
  ELSE InvestigationRun1(w, task, PassThrough(w, probe.ops,
      "create_snapshot"))

\* claude_code_plugin.create_investigation_context
create_investigation_context_at(w, ops, task) ==
  InvestigationAfter(w, task, is_argus_available_at(w, ops))

----------------------------------------------------------------------------
(* The helpers as a state machine: one call while the monitor comes and    *)
(* goes.  inputs holds the arguments of the call and when the monitor is   *)
(* down; requests and replies hold what was sent and answered, in order;   *)
(* last holds the operations that sent the requests.                       *)

\* the latest request at which the monitor goes down
Horizon == 26
\* an outage longer than any call
LongOutage == 50

\* when the monitor goes down and when it is back: never down, down for one
\* or two requests, down for the rest of the call
Timelines ==
  {<<1, 1>>}
  \cup {<<d, d + n>> : d \in 1..Horizon, n \in {1, 2, LongOutage}}

\* a monitor that answers every write with a server error
MonitorReadOnly ==
  [op \in AllOps |->
     IF op \in WriteOps THEN Http(500, NotJson) ELSE NominalMonitor[op]]

HelperMonitors ==
  {MonitorHealthy, MonitorTroubled, MonitorReadOnly, MonitorDown,
   Reporting(95, EmptyList, FALSE, 0, 0)}

HelperArgs(helper, t) ==
  [op |-> helper, down_from |-> t[1], up_from |-> t[2]]

Sent(ops) == [k \in DOMAIN ops |-> Req(ops[k])]
RepliesTo(w, ops) == [k \in DOMAIN ops |-> ReplyTo(w, k, ops[k])]

\* the state after a call that ran as r in the world w
Returned(helper, args, w, r) ==
  /\ call' = helper
  /\ inputs' = args
  /\ requests' = Sent(r.ops)
  /\ replies' = RepliesTo(w, r.ops)
  /\ last' = [op |-> helper, ops |-> r.ops]
  /\ result' = r.v
  /\ pc' = "done"
  /\ UNCHANGED <<context, deviations, monitor, project_context, language>>

\* one call of a helper that passes one operation through
CallPassThrough ==
  \E helper \in PassThroughHelpers, t \in Timelines :
    /\ pc = "idle"
    /\ Returned(helper, HelperArgs(helper, t), World(monitor, t[1], t[2]),
                PassThrough(World(monitor, t[1], t[2]), <<>>, helper))

\* one call of claude_argus_helpers.get_project_summary
CallProjectSummary ==
  \E t \in Timelines :
    /\ pc = "idle"
    /\ Returned("get_project_summary", HelperArgs("get_project_summary", t),
                World(monitor, t[1], t[2]),
                get_project_summary_at(World(monitor, t[1], t[2]), <<>>))

\* one call of claude_argus_helpers.get_next_actions
CallNextActions ==
  \E t \in Timelines :
    /\ pc = "idle"
    /\ Returned("get_next_actions", HelperArgs("get_next_actions", t),
                World(monitor, t[1], t[2]),
                get_next_actions_at(World(monitor, t[1], t[2]), <<>>))

\* one call of ClaudeArgusIntegration.suggest_next_actions
CallSuggestNextActions ==
  \E t \in Timelines :
    /\ pc = "idle"
    /\ Returned("suggest_next_actions", HelperArgs("suggest_next_actions", t),
                World(monitor, t[1], t[2]),
                suggest_next_actions_at(World(monitor, t[1], t[2]), <<>>))

\* one call of claude_argus_helpers.analyze_code_quality
CallCodeQuality ==
  \E t \in Timelines :
    /\ pc = "idle"
    /\ Returned("analyze_code_quality", HelperArgs("analyze_code_quality", t),
                World(monitor, t[1], t[2]),
                analyze_code_quality_helper_at(World(monitor, t[1], t[2]),
                                               <<>>))

\* one call of claude_argus_helpers.get_file_analysis
CallFileAnalysis ==
  \E t \in Timelines, file_path \in FilePaths :
    /\ pc = "idle"
    /\ Returned("get_file_analysis",
                [op |-> "get_file_analysis", file_path |-> file_path,
                 down_from |-> t[1], up_from |-> t[2]],
                World(monitor, t[1], t[2]),
                get_file_analysis_at(World(monitor, t[1], t[2]), <<>>,
                                     file_path))

\* one call of claude_argus_helpers.get_claude_context
CallClaudeContext ==
  \E t \in Timelines :
    /\ pc = "idle"
    /\ Returned("get_claude_context", HelperArgs("get_claude_context", t),
                World(monitor, t[1], t[2]),
                get_claude_context_at(World(monitor, t[1], t[2]), <<>>))

\* one call of argus_context.get_detailed_context
CallDetailedContext ==
  \E t \in Timelines :
    /\ pc = "idle"
    /\ Returned("get_detailed_context", HelperArgs("get_detailed_context", t),
                World(monitor, t[1], t[2]),
                get_detailed_context_at(World(monitor, t[1], t[2]), <<>>))

InvestigationTasks == {<<"f", "i", "x", " ", "t", "h", "e", " ", "l", "o", "g",
    "i", "n", " ", "b", "u", "g">>, <<"a", "d", "d", " ", "e", "x", "p", "o",
    "r", "t">>}

\* one call of claude_code_plugin.create_investigation_context
CallInvestigation ==
  \E t \in Timelines, task \in InvestigationTasks :
    /\ pc = "idle"
    /\ Returned("create_investigation_context",
                [op |-> "create_investigation_context", task |-> task,
                 down_from |-> t[1], up_from |-> t[2]],
                World(monitor, t[1], t[2]),
                create_investigation_context_at(World(monitor, t[1], t[2]),
                                                <<>>, task))

HelpersInit ==
  /\ pc = "idle"
  /\ call = ""
  /\ context = [k \in {} |-> PyNone]
  /\ result = NoResult
  /\ requests = <<>>
  /\ replies = <<>>
  /\ deviations = 0
  /\ monitor \in HelperMonitors
  /\ inputs = NoArgs
  /\ project_context = PyNone
  /\ language = ""
  /\ last = NoCall

HelpersNext ==
  \/ CallPassThrough
  \/ CallProjectSummary
  \/ CallNextActions
  \/ CallSuggestNextActions
  \/ CallCodeQuality
  \/ CallFileAnalysis
  \/ CallClaudeContext
  \/ CallDetailedContext
  \/ CallInvestigation

\* the helpers against a monitor that comes and goes during the call
SpecHelpers == HelpersInit /\ [][HelpersNext]_vars

----------------------------------------------------------------------------
(* Properties of the helpers while the monitor comes and goes *)

Called(helper) == pc = "done" /\ call = helper

\* the k-th request of the call was answered with status 200
Probed(k) == Len(replies) >= k /\ is_available(replies[k])

\* the k-th request of the call was made and not answered with status 200
ProbeFailed(k) == Len(replies) >= k /\ ~is_available(replies[k])

\* the caller's own probe succeeded and a later request of the call failed
\* in the transport
MonitorLeft ==
  /\ Probed(1)
  /\ \E k \in 2..Len(replies) : replies[k].exc # ""

\* C21: get_detailed_context, get_claude_context and get_project_summary
\* return a value and never raise when the monitor becomes unavailable
\* after their own probe succeeded, during the probes and sub-queries of the
\* functions they call
C21_ValuesAcrossBoundaries ==
  (/\ pc = "done"
   /\ call \in {"get_detailed_context", "get_claude_context",
                "get_project_summary"}
   /\ MonitorLeft)
    => ~IsRaise(result)

\* the one recommendation suggest_next_actions draws from a context that
\* holds no health report
OnlyImproveQuality == PyList(<<Advice("improve-quality", PyInt(0))>>)

\* C25: when the probe that get_project_context makes for
\* suggest_next_actions fails, also after the probe of get_next_actions
\* succeeded, the result is the improve-quality message with score 0 alone:
\* no fallback, no exception
C25_UnavailableContextAdvice ==
  /\ (Called("suggest_next_actions") /\ ProbeFailed(1))
       => result = OnlyImproveQuality
  /\ (Called("get_next_actions") /\ Probed(1) /\ ProbeFailed(2))
       => result = OnlyImproveQuality

\* get_next_actions probed a monitor that was up and suggest_next_actions
\* found it down
C25_Witness ==
  /\ Called("get_next_actions")
  /\ Probed(1)
  /\ ProbeFailed(2)
  /\ Len(requests) = 2
  /\ result = OnlyImproveQuality

\* suggest_next_actions called on its own against a monitor that is down
C25_WitnessDirect ==
  /\ Called("suggest_next_actions")
  /\ ProbeFailed(1)
  /\ Len(requests) = 1
  /\ result = OnlyImproveQuality

\* the helper operations of claude_argus_helpers lines 31-156
HelperOperations ==
  PassThroughHelpers
  \cup {"get_project_summary", "get_next_actions", "analyze_code_quality",
        "get_file_analysis"}

\* C26: every helper operation first sends one probe; when the probe fails
\* it sends nothing else, no POST in particular, and returns its fixed
\* marker; every other request of the call comes after a probe that
\* succeeded
C26_ProbeFirst ==
  (pc = "done" /\ call \in HelperOperations) =>
    /\ Len(requests) >= 1
    /\ last.ops[1] = "is_available"
    /\ requests[1] = Req("is_available")
    /\ ProbeFailed(1) =>
         /\ Len(requests) = 1
         /\ result = Marker(call)
    /\ \A k \in DOMAIN requests :
         (last.ops[k] # "is_available" \/ requests[k].method = "POST")
           => k > 1 /\ Probed(1)

\* create_snapshot probed a monitor that was down: the one request is the
\* probe and the marker comes back
C26_Witness ==
  /\ Called("create_snapshot")
  /\ ProbeFailed(1)
  /\ requests = <<Req("is_available")>>
  /\ result = HelperErrorDict

\* add_question probed a monitor that was up: the POST follows the probe
C26_WitnessSent ==
  /\ Called("add_question")
  /\ Probed(1)
  /\ Len(requests) = 2
  /\ requests[2] = Req("add_investigation_question")

InvestigationKeys ==
  {"snapshot", "task", "project_context", "initial_recommendations"}

\* the requests at position k and later only read
ReadsFrom(k) ==
  \A j \in DOMAIN requests : j >= k => requests[j].method = "GET"

\* the operations at the positions before k are probes and writes only
WritesBefore(k) ==
  \A j \in DOMAIN requests :
    j < k => last.ops[j] \in {"is_available"} \cup WriteOps

SnapshotEnd == IF Probed(2) THEN 3 ELSE 2

\* the position of the last request of add_question, whose probe follows
\* the requests of create_snapshot
QuestionEnd == IF Probed(SnapshotEnd + 1) THEN SnapshotEnd + 2 ELSE SnapshotEnd + 1

C27_WitnessDegraded ==
  /\ Called("create_investigation_context")
  /\ Len(requests) >= 5
  /\ replies[3].status = 500
  /\ requests[3] = Req("create_investigation_snapshot")
  /\ requests[5] = Req("add_investigation_question")
  /\ ~IsRaise(result)
  /\ "error" \in DOMAIN result.d["snapshot"].d

====
